---- MODULE Spec2Model ----
(***************************************************************************)
(* SIP protocol Python SDK (sdks/python/sip_protocol): Pedersen            *)
(* commitments, stealth addresses, meta-address text codec, the           *)
(* viewing-key AEAD layer and the fee budgets of optimizations.py.         *)
(*                                                                         *)
(* Scale.  secp256k1 is replaced by the curve of the same equation,        *)
(* y^2 = x^3 + 7, over the field of 13 elements; it has prime group order  *)
(* 7, so, as for secp256k1, every non-identity point generates the group   *)
(* and n < p < 2^(8*32) becomes 7 < 13 < 16.  A byte holds 2 bits (values  *)
(* 0..3), a "32-byte" scalar or digest is 2 such bytes (0..15), a hex      *)
(* digit holds half a byte (1 bit).  All arithmetic, encodings and error   *)
(* paths are those of the source; only the widths are scaled.              *)
(* In optimizations.py amounts in wei are scaled (a gwei is 1000 wei);     *)
(* compute units, microlamports and the doubles are at their real size.    *)
(*                                                                         *)
(* A Python call that may raise is modelled by a result record:            *)
(* Ok(v) = [ok |-> TRUE, val |-> v], Raise(e) = [ok |-> FALSE, err |-> e]. *)
(***************************************************************************)
EXTENDS Integers, Sequences, FiniteSets, TLC

VARIABLES
    G_BYTES,    \* commitment.py  _G_BYTES  (module-level constant)
    H_BYTES,    \* commitment.py  _H_BYTES  (module-level constant)
    sha,        \* SHA-256 as a lazily sampled function: message -> digest
    cm,         \* the commitment scenario: inputs and results of the calls made
    st,         \* the stealth-address scenario
    ma,         \* the meta-address codec scenario
    ae,         \* the viewing-key AEAD scenario
    opt         \* the fee-optimization scenario (optimizations.py)

vars == <<G_BYTES, H_BYTES, sha, cm, st, ma, ae, opt>>

----------------------------------------------------------------------------
(* Widths and curve parameters (scaled, see the header).                   *)

FIELD_P == 13           \* secp256k1 field prime
CURVE_B == 7            \* y^2 = x^3 + 7
CURVE_ORDER == 7        \* group order n
HEX_BASE == 2           \* values of one hex digit
SCALAR_LEN == 2         \* bytes of a scalar / digest / x-coordinate ("32")

BYTE_BASE == HEX_BASE * HEX_BASE
ByteVals == 0 .. (BYTE_BASE - 1)

RECURSIVE Pow(_, _)
Pow(b, e) == IF e = 0 THEN 1 ELSE b * Pow(b, e - 1)

RECURSIVE BytesOfLen(_)
BytesOfLen(k) ==
    IF k = 0 THEN {<<>>}
    ELSE {<<b>> \o s : b \in ByteVals, s \in BytesOfLen(k - 1)}

Ok(v) == [ok |-> TRUE, val |-> v]
Raise(e) == [ok |-> FALSE, err |-> e]

----------------------------------------------------------------------------
(* Python built-ins used by the source.                                    *)

RECURSIVE int_from_bytes(_)
int_from_bytes(b) ==
    IF b = <<>> THEN 0
    ELSE b[Len(b)] + BYTE_BASE * int_from_bytes(SubSeq(b, 1, Len(b) - 1))

RECURSIVE BigEndian(_, _)
BigEndian(i, len) ==
    IF len = 0 THEN <<>>
    ELSE Append(BigEndian(i \div BYTE_BASE, len - 1), i % BYTE_BASE)

\* int.to_bytes(len, "big"): OverflowError for a negative int or one too big
int_to_bytes(i, len) ==
    IF i < 0 \/ i >= Pow(BYTE_BASE, len) THEN Raise("OverflowError")
    ELSE Ok(BigEndian(i, len))

HexChars == {"0", "1"}
HexChar(d) == IF d = 0 THEN "0" ELSE "1"
HexVal(c) == IF c = "0" THEN 0 ELSE 1

RECURSIVE bytes_hex(_)
bytes_hex(b) ==
    IF b = <<>> THEN <<>>
    ELSE <<HexChar(b[1] \div HEX_BASE), HexChar(b[1] % HEX_BASE)>>
            \o bytes_hex(Tail(b))

RECURSIVE FromHexDigits(_)
FromHexDigits(s) ==
    IF s = <<>> THEN <<>>
    ELSE <<HEX_BASE * HexVal(s[1]) + HexVal(s[2])>>
            \o FromHexDigits(SubSeq(s, 3, Len(s)))

\* bytes.fromhex: ValueError on a non-hex character or an odd digit count
bytes_fromhex(s) ==
    IF (\E i \in 1 .. Len(s) : s[i] \notin HexChars) \/ Len(s) % 2 # 0
    THEN Raise("ValueError")
    ELSE Ok(FromHexDigits(s))

str_startswith(s, prefix) ==
    /\ Len(s) >= Len(prefix)
    /\ SubSeq(s, 1, Len(prefix)) = prefix

----------------------------------------------------------------------------
(* crypto.py                                                               *)

hex_to_bytes(hex_str) ==
    IF str_startswith(hex_str, <<"0", "x">>)
    THEN bytes_fromhex(SubSeq(hex_str, 3, Len(hex_str)))
    ELSE bytes_fromhex(hex_str)

bytes_to_hex(data) == <<"0", "x">> \o bytes_hex(data)

----------------------------------------------------------------------------
(* The curve library (coincurve over libsecp256k1), by what it computes.   *)

Infinity == <<>>

OnCurve(x, y) == (y * y) % FIELD_P = (x * x * x + CURVE_B) % FIELD_P

CurvePoints == {<<x, y>> : x \in 0 .. (FIELD_P - 1), y \in 0 .. (FIELD_P - 1)}

ValidPoints == {P \in CurvePoints : OnCurve(P[1], P[2])}

\* inverses mod p, tabulated once
InverseTable ==
    [a \in 1 .. (FIELD_P - 1) |-> CHOOSE b \in 1 .. (FIELD_P - 1) : (a * b) % FIELD_P = 1]

ModInv(a) == InverseTable[a]

PointAdd(P, Q) ==
    IF P = Infinity THEN Q
    ELSE IF Q = Infinity THEN P
    ELSE IF P[1] = Q[1] /\ (P[2] + Q[2]) % FIELD_P = 0 THEN Infinity
    ELSE LET lam == IF P = Q
                    THEN (3 * P[1] * P[1] * ModInv((2 * P[2]) % FIELD_P)) % FIELD_P
                    ELSE ((Q[2] - P[2]) * ModInv((Q[1] - P[1]) % FIELD_P)) % FIELD_P
             x3 == (lam * lam - P[1] - Q[1]) % FIELD_P
             y3 == (lam * (P[1] - x3) - P[2]) % FIELD_P
         IN  <<x3, y3>>

RECURSIVE Multiple(_, _)
Multiple(k, P) == IF k = 0 THEN Infinity ELSE PointAdd(P, Multiple(k - 1, P))

\* k * P for every scalar below the group order, tabulated once
MultipleTable ==
    [P \in ValidPoints |-> [k \in 0 .. (CURVE_ORDER - 1) |-> Multiple(k, P)]]

ScalarMul(k, P) == MultipleTable[P][k]

PUBKEY_LEN == SCALAR_LEN + 1

\* PublicKey(data): parse a compressed point; ValueError unless the length is
\* right, the prefix is 02/03 and x is the abscissa of a curve point
PublicKey(data) ==
    IF Len(data) # PUBKEY_LEN THEN Raise("ValueError")
    ELSE IF data[1] \notin {2, 3} THEN Raise("ValueError")
    ELSE LET x == int_from_bytes(Tail(data))
             ys == {y \in 0 .. (FIELD_P - 1) : OnCurve(x, y) /\ y % 2 = data[1] % 2}
         IN  IF x >= FIELD_P \/ ys = {} THEN Raise("ValueError")
             ELSE Ok(<<x, CHOOSE y \in ys : TRUE>>)

\* PublicKey.format(compressed=True)
PublicKey_format(P) == <<2 + (P[2] % 2)>> \o BigEndian(P[1], SCALAR_LEN)

\* validate_secret: 0 < secret < n
validate_secret(secret) ==
    LET k == int_from_bytes(secret)
    IN  IF 0 < k /\ k < CURVE_ORDER THEN Ok(k) ELSE Raise("ValueError")

\* PublicKey.multiply(scalar)
PublicKey_multiply(P, scalar) ==
    LET k == validate_secret(scalar)
    IN  IF ~k.ok THEN k ELSE Ok(ScalarMul(k.val, P))

\* PublicKey.combine([Q]): ValueError when the sum is the point at infinity
PublicKey_combine(P, Q) ==
    IF PointAdd(P, Q) = Infinity THEN Raise("ValueError") ELSE Ok(PointAdd(P, Q))

CURVE_GX == 7
CURVE_GY == 8
BasePoint == <<CURVE_GX, CURVE_GY>>

\* PrivateKey(secret).public_key
PrivateKey_public_key(secret) ==
    LET k == validate_secret(secret)
    IN  IF ~k.ok THEN k ELSE Ok(ScalarMul(k.val, BasePoint))

----------------------------------------------------------------------------
(* commitment.py                                                           *)

H_ATTEMPTS == 2         \* range(256) of _generate_h, scaled

Digests == BytesOfLen(SCALAR_LEN)

\* _generate_h over the digests SHA-256 yields for "<H_DOMAIN>:<counter>":
\* the first candidate 02 || digest that parses as a point
RECURSIVE generate_h_from(_, _)
generate_h_from(digest, counter) ==
    IF counter >= H_ATTEMPTS THEN Raise("RuntimeError")
    ELSE LET point_bytes == <<2>> \o digest[counter]
         IN  IF PublicKey(point_bytes).ok THEN Ok(point_bytes)
             ELSE generate_h_from(digest, counter + 1)

\* _generate_h returning its first candidate without parsing it
generate_h_unvalidated(digest) == Ok(<<2>> \o digest[0])

generate_h(digest) == generate_h_from(digest, 0)

\* every value _H_BYTES can have once the module is imported
GenerateHOutcomes ==
    {generate_h(d).val : d \in {e \in [0 .. (H_ATTEMPTS - 1) -> Digests] : generate_h(e).ok}}

\* _get_generator_g: the public key of the private key 1
get_generator_g == PublicKey_format(PrivateKey_public_key(BigEndian(1, SCALAR_LEN)).val)

point_multiply(scalar, point_bytes) ==
    LET point == PublicKey(point_bytes)
        sb == int_to_bytes(scalar, SCALAR_LEN)
    IN  IF ~point.ok THEN point
        ELSE IF ~sb.ok THEN sb
        ELSE LET result == PublicKey_multiply(point.val, sb.val)
             IN  IF ~result.ok THEN result ELSE Ok(PublicKey_format(result.val))

point_add(point1_bytes, point2_bytes) ==
    LET point1 == PublicKey(point1_bytes)
        point2 == PublicKey(point2_bytes)
    IN  IF ~point1.ok THEN point1
        ELSE IF ~point2.ok THEN point2
        ELSE LET result == PublicKey_combine(point1.val, point2.val)
             IN  IF ~result.ok THEN result ELSE Ok(PublicKey_format(result.val))

\* An optional bytes argument: None, or Some(bytes)
None == [some |-> FALSE, v |-> <<>>]
Some(b) == [some |-> TRUE, v |-> b]

\* v*G + r*H as commit and verify_opening both compute it
commit_point(value, r_scalar) ==
    IF value = 0 THEN point_multiply(r_scalar, H_BYTES)
    ELSE LET v_g == point_multiply(value, G_BYTES)
             r_h == point_multiply(r_scalar, H_BYTES)
         IN  IF ~v_g.ok THEN v_g
             ELSE IF ~r_h.ok THEN r_h
             ELSE point_add(v_g.val, r_h.val)

\* commit without its value = 0 branch: it multiplies G by the value always
commit_always_multiplies(value, blinding, token) ==
    IF value < 0 THEN Raise("ValueError")
    ELSE IF value >= CURVE_ORDER THEN Raise("ValueError")
    ELSE IF blinding.some /\ Len(blinding.v) # SCALAR_LEN THEN Raise("ValueError")
    ELSE LET b == IF blinding.some THEN blinding.v ELSE token
             r_scalar == int_from_bytes(b) % CURVE_ORDER
         IN  IF r_scalar = 0 THEN Raise("RuntimeError")
             ELSE LET v_g == point_multiply(value, G_BYTES)
                      r_h == point_multiply(r_scalar, H_BYTES)
                      c_bytes == IF ~v_g.ok THEN v_g
                                 ELSE IF ~r_h.ok THEN r_h
                                 ELSE point_add(v_g.val, r_h.val)
                  IN  IF ~c_bytes.ok THEN c_bytes
                      ELSE Ok(<<bytes_to_hex(c_bytes.val), bytes_to_hex(b)>>)

\* commit without the test of the blinding's length
commit_any_length(value, blinding, token) ==
    IF value < 0 THEN Raise("ValueError")
    ELSE IF value >= CURVE_ORDER THEN Raise("ValueError")
    ELSE LET b == IF blinding.some THEN blinding.v ELSE token
             r_scalar == int_from_bytes(b) % CURVE_ORDER
         IN  IF r_scalar = 0 THEN Raise("RuntimeError")
             ELSE LET c_bytes == commit_point(value, r_scalar)
                  IN  IF ~c_bytes.ok THEN c_bytes
                      ELSE Ok(<<bytes_to_hex(c_bytes.val), bytes_to_hex(b)>>)

\* commit returning the blinding reduced mod n instead of the bytes it was given
commit_returns_reduced_blinding(value, blinding, token) ==
    IF value < 0 THEN Raise("ValueError")
    ELSE IF value >= CURVE_ORDER THEN Raise("ValueError")
    ELSE IF blinding.some /\ Len(blinding.v) # SCALAR_LEN THEN Raise("ValueError")
    ELSE LET b == IF blinding.some THEN blinding.v ELSE token
             r_scalar == int_from_bytes(b) % CURVE_ORDER
         IN  IF r_scalar = 0 THEN Raise("RuntimeError")
             ELSE LET c_bytes == commit_point(value, r_scalar)
                  IN  IF ~c_bytes.ok THEN c_bytes
                      ELSE Ok(<<bytes_to_hex(c_bytes.val),
                                bytes_to_hex(BigEndian(r_scalar, SCALAR_LEN))>>)

\* commit(value, blinding); token is what secrets.token_bytes(32) returns
\* when it is called.  Ok(<<commitment hex, blinding hex>>) or the error.
commit(value, blinding, token) ==
    IF value < 0 THEN Raise("ValueError")
    ELSE IF value >= CURVE_ORDER THEN Raise("ValueError")
    ELSE IF blinding.some /\ Len(blinding.v) # SCALAR_LEN THEN Raise("ValueError")
    ELSE LET b == IF blinding.some THEN blinding.v ELSE token
             r_scalar == int_from_bytes(b) % CURVE_ORDER
         IN  IF r_scalar = 0 THEN Raise("RuntimeError")
             ELSE LET c_bytes == commit_point(value, r_scalar)
                  IN  IF ~c_bytes.ok THEN c_bytes
                      ELSE Ok(<<bytes_to_hex(c_bytes.val), bytes_to_hex(b)>>)

\* verify_opening reducing the claimed value mod n before it multiplies
verify_opening_reduces_value(commitment, value, blinding) ==
    LET c_bytes == hex_to_bytes(commitment)
        blinding_bytes == hex_to_bytes(blinding)
    IN  IF ~c_bytes.ok \/ ~blinding_bytes.ok THEN FALSE
        ELSE LET r_scalar == int_from_bytes(blinding_bytes.val) % CURVE_ORDER
                 expected == commit_point(value % CURVE_ORDER, r_scalar)
             IN  IF ~expected.ok THEN FALSE ELSE c_bytes.val = expected.val

\* verify_opening leaving the blinding term out when the blinding reduces
\* to 0 mod n, instead of failing on the zero scalar
verify_opening_skips_zero_blinding(commitment, value, blinding) ==
    LET c_bytes == hex_to_bytes(commitment)
        blinding_bytes == hex_to_bytes(blinding)
    IN  IF ~c_bytes.ok \/ ~blinding_bytes.ok THEN FALSE
        ELSE LET r_scalar == int_from_bytes(blinding_bytes.val) % CURVE_ORDER
                 expected == IF r_scalar = 0 THEN point_multiply(value, G_BYTES)
                             ELSE commit_point(value, r_scalar)
             IN  IF ~expected.ok THEN FALSE ELSE c_bytes.val = expected.val

\* verify_opening(commitment, value, blinding): every exception is False
verify_opening(commitment, value, blinding) ==
    LET c_bytes == hex_to_bytes(commitment)
        blinding_bytes == hex_to_bytes(blinding)
    IN  IF ~c_bytes.ok \/ ~blinding_bytes.ok THEN FALSE
        ELSE LET r_scalar == int_from_bytes(blinding_bytes.val) % CURVE_ORDER
                 expected == commit_point(value, r_scalar)
             IN  IF ~expected.ok THEN FALSE ELSE c_bytes.val = expected.val

\* add_blindings computing the difference (the body of subtract_blindings)
add_blindings_subtracts(b1, b2) ==
    LET r1 == hex_to_bytes(b1)
        r2 == hex_to_bytes(b2)
    IN  IF ~r1.ok THEN r1
        ELSE IF ~r2.ok THEN r2
        ELSE LET result == (int_from_bytes(r1.val) - int_from_bytes(r2.val) + CURVE_ORDER)
                                % CURVE_ORDER
                 rb == int_to_bytes(result, SCALAR_LEN)
             IN  IF ~rb.ok THEN rb ELSE Ok(bytes_to_hex(rb.val))

\* subtract_commitments without the parity flip: it adds c2 as it is
subtract_commitments_no_negation(c1, c2) ==
    LET c1_bytes == hex_to_bytes(c1)
        c2_bytes == hex_to_bytes(c2)
    IN  IF ~c1_bytes.ok THEN c1_bytes
        ELSE IF ~c2_bytes.ok THEN c2_bytes
        ELSE IF c2_bytes.val = <<>> THEN Raise("IndexError")
        ELSE LET result == point_add(c1_bytes.val, c2_bytes.val)
             IN  IF ~result.ok THEN result ELSE Ok(bytes_to_hex(result.val))

add_commitments(c1, c2) ==
    LET c1_bytes == hex_to_bytes(c1)
        c2_bytes == hex_to_bytes(c2)
    IN  IF ~c1_bytes.ok THEN c1_bytes
        ELSE IF ~c2_bytes.ok THEN c2_bytes
        ELSE LET result == point_add(c1_bytes.val, c2_bytes.val)
             IN  IF ~result.ok THEN result ELSE Ok(bytes_to_hex(result.val))

subtract_commitments(c1, c2) ==
    LET c1_bytes == hex_to_bytes(c1)
        c2_bytes == hex_to_bytes(c2)
    IN  IF ~c1_bytes.ok THEN c1_bytes
        ELSE IF ~c2_bytes.ok THEN c2_bytes
        ELSE IF c2_bytes.val = <<>> THEN Raise("IndexError")
        ELSE LET c2_negated == <<IF c2_bytes.val[1] = 2 THEN 3 ELSE 2>>
                                    \o Tail(c2_bytes.val)
                 result == point_add(c1_bytes.val, c2_negated)
             IN  IF ~result.ok THEN result ELSE Ok(bytes_to_hex(result.val))

add_blindings(b1, b2) ==
    LET r1 == hex_to_bytes(b1)
        r2 == hex_to_bytes(b2)
    IN  IF ~r1.ok THEN r1
        ELSE IF ~r2.ok THEN r2
        ELSE LET result == (int_from_bytes(r1.val) + int_from_bytes(r2.val)) % CURVE_ORDER
                 rb == int_to_bytes(result, SCALAR_LEN)
             IN  IF ~rb.ok THEN rb ELSE Ok(bytes_to_hex(rb.val))

subtract_blindings(b1, b2) ==
    LET r1 == hex_to_bytes(b1)
        r2 == hex_to_bytes(b2)
    IN  IF ~r1.ok THEN r1
        ELSE IF ~r2.ok THEN r2
        ELSE LET result == (int_from_bytes(r1.val) - int_from_bytes(r2.val) + CURVE_ORDER)
                                % CURVE_ORDER
                 rb == int_to_bytes(result, SCALAR_LEN)
             IN  IF ~rb.ok THEN rb ELSE Ok(bytes_to_hex(rb.val))

\* PublicKey.format(compressed=False): the byte 0x04, then x, then y
PublicKey_format_uncompressed(P) ==
    <<4>> \o BigEndian(P[1], SCALAR_LEN) \o BigEndian(P[2], SCALAR_LEN)

Coordinates(uncompressed) ==
    [x |-> bytes_to_hex(SubSeq(uncompressed, 2, 1 + SCALAR_LEN)),
     y |-> bytes_to_hex(SubSeq(uncompressed, 2 + SCALAR_LEN, Len(uncompressed)))]

\* get_generators formatting the G point a second time where it should
\* format H
get_generators_formats_g_twice ==
    LET g_uncompressed == PublicKey_format_uncompressed(PublicKey(G_BYTES).val)
    IN  [G |-> Coordinates(g_uncompressed), H |-> Coordinates(g_uncompressed)]

\* get_generators(): the x and y of G and H as hex
get_generators ==
    LET g_uncompressed == PublicKey_format_uncompressed(PublicKey(G_BYTES).val)
        h_uncompressed == PublicKey_format_uncompressed(PublicKey(H_BYTES).val)
    IN  [G |-> Coordinates(g_uncompressed), H |-> Coordinates(h_uncompressed)]

----------------------------------------------------------------------------
(* stealth.py                                                              *)

StealthMetaAddress(spending_key, viewing_key, chain, label) ==
    [spending_key |-> spending_key, viewing_key |-> viewing_key,
     chain |-> chain, label |-> label]

StealthAddress(address, ephemeral_public_key, view_tag) ==
    [address |-> address, ephemeral_public_key |-> ephemeral_public_key,
     view_tag |-> view_tag]

StealthAddressRecovery(stealth_address, ephemeral_public_key, private_key) ==
    [stealth_address |-> stealth_address,
     ephemeral_public_key |-> ephemeral_public_key, private_key |-> private_key]

\* generate_stealth_meta_address(chain, label); spending_private and
\* viewing_private are the two secrets.token_bytes(32) draws.
\* Ok(<<meta, spending private hex, viewing private hex>>) or the error.
generate_stealth_meta_address(chain, label, spending_private, viewing_private) ==
    LET spending_pub == PrivateKey_public_key(spending_private)
        viewing_pub == PrivateKey_public_key(viewing_private)
    IN  IF ~spending_pub.ok THEN spending_pub
        ELSE IF ~viewing_pub.ok THEN viewing_pub
        ELSE Ok(<<StealthMetaAddress(bytes_to_hex(PublicKey_format(spending_pub.val)),
                                     bytes_to_hex(PublicKey_format(viewing_pub.val)),
                                     chain, label),
                  bytes_to_hex(spending_private),
                  bytes_to_hex(viewing_private)>>)

\* the bytes generate_stealth_address hands to SHA-256 (compressed r * P_spend),
\* or the error raised before it gets there
sender_shared_secret(recipient_meta_address, ephemeral_private) ==
    LET ephemeral_pub == PrivateKey_public_key(ephemeral_private)
        spending_key_bytes == hex_to_bytes(recipient_meta_address.spending_key)
        viewing_key_bytes == hex_to_bytes(recipient_meta_address.viewing_key)
    IN  IF ~ephemeral_pub.ok THEN ephemeral_pub
        ELSE IF ~spending_key_bytes.ok THEN spending_key_bytes
        ELSE IF ~viewing_key_bytes.ok THEN viewing_key_bytes
        ELSE LET spending_point == PublicKey(spending_key_bytes.val)
             IN  IF ~spending_point.ok THEN spending_point
                 ELSE LET shared_secret_point ==
                              PublicKey_multiply(spending_point.val, ephemeral_private)
                      IN  IF ~shared_secret_point.ok THEN shared_secret_point
                          ELSE Ok(PublicKey_format(shared_secret_point.val))

\* generate_stealth_address with P_spend in place of P_view in the last sum
generate_stealth_address_adds_spend(recipient_meta_address, ephemeral_private, shared_secret_hash) ==
    LET shared_secret_bytes == sender_shared_secret(recipient_meta_address, ephemeral_private)
    IN  IF ~shared_secret_bytes.ok THEN shared_secret_bytes
        ELSE
        LET hash_scalar == int_from_bytes(shared_secret_hash) % CURVE_ORDER
            hash_times_g == PrivateKey_public_key(BigEndian(hash_scalar, SCALAR_LEN))
            viewing_point == PublicKey(hex_to_bytes(recipient_meta_address.spending_key).val)
        IN  IF ~hash_times_g.ok THEN hash_times_g
            ELSE IF ~viewing_point.ok THEN viewing_point
            ELSE LET stealth_point == PublicKey_combine(viewing_point.val, hash_times_g.val)
                 IN  IF ~stealth_point.ok THEN stealth_point
                     ELSE Ok(<<StealthAddress(
                                  bytes_to_hex(PublicKey_format(stealth_point.val)),
                                  bytes_to_hex(PublicKey_format(
                                      PrivateKey_public_key(ephemeral_private).val)),
                                  shared_secret_hash[1]),
                               bytes_to_hex(shared_secret_hash)>>)

\* generate_stealth_address taking the view tag from the last byte of the hash
generate_stealth_address_tags_last_byte(recipient_meta_address, ephemeral_private, shared_secret_hash) ==
    LET shared_secret_bytes == sender_shared_secret(recipient_meta_address, ephemeral_private)
    IN  IF ~shared_secret_bytes.ok THEN shared_secret_bytes
        ELSE
        LET hash_scalar == int_from_bytes(shared_secret_hash) % CURVE_ORDER
            hash_times_g == PrivateKey_public_key(BigEndian(hash_scalar, SCALAR_LEN))
            viewing_point == PublicKey(hex_to_bytes(recipient_meta_address.viewing_key).val)
        IN  IF ~hash_times_g.ok THEN hash_times_g
            ELSE IF ~viewing_point.ok THEN viewing_point
            ELSE LET stealth_point == PublicKey_combine(viewing_point.val, hash_times_g.val)
                 IN  IF ~stealth_point.ok THEN stealth_point
                     ELSE Ok(<<StealthAddress(
                                  bytes_to_hex(PublicKey_format(stealth_point.val)),
                                  bytes_to_hex(PublicKey_format(
                                      PrivateKey_public_key(ephemeral_private).val)),
                                  shared_secret_hash[Len(shared_secret_hash)]),
                               bytes_to_hex(shared_secret_hash)>>)

\* generate_stealth_address(meta); ephemeral_private is the token_bytes(32)
\* draw and shared_secret_hash the SHA-256 digest of the shared secret.
\* Ok(<<stealth address, shared secret hash hex>>) or the error.
generate_stealth_address(recipient_meta_address, ephemeral_private, shared_secret_hash) ==
    LET shared_secret_bytes == sender_shared_secret(recipient_meta_address, ephemeral_private)
    IN  IF ~shared_secret_bytes.ok THEN shared_secret_bytes
        ELSE
        LET hash_scalar == int_from_bytes(shared_secret_hash) % CURVE_ORDER
            hash_times_g == PrivateKey_public_key(BigEndian(hash_scalar, SCALAR_LEN))
            viewing_point == PublicKey(hex_to_bytes(recipient_meta_address.viewing_key).val)
        IN  IF ~hash_times_g.ok THEN hash_times_g
            ELSE IF ~viewing_point.ok THEN viewing_point
            ELSE LET stealth_point == PublicKey_combine(viewing_point.val, hash_times_g.val)
                 IN  IF ~stealth_point.ok THEN stealth_point
                     ELSE Ok(<<StealthAddress(
                                  bytes_to_hex(PublicKey_format(stealth_point.val)),
                                  bytes_to_hex(PublicKey_format(
                                      PrivateKey_public_key(ephemeral_private).val)),
                                  shared_secret_hash[1]),
                               bytes_to_hex(shared_secret_hash)>>)

\* the bytes the recipient side hands to SHA-256 (compressed p_spend * R), or
\* the error raised before it gets there
recipient_shared_secret(stealth_address, spending_private_key) ==
    LET spending_priv_bytes == hex_to_bytes(spending_private_key)
        ephemeral_pub_bytes == hex_to_bytes(stealth_address.ephemeral_public_key)
    IN  IF ~spending_priv_bytes.ok THEN spending_priv_bytes
        ELSE IF ~ephemeral_pub_bytes.ok THEN ephemeral_pub_bytes
        ELSE LET ephemeral_point == PublicKey(ephemeral_pub_bytes.val)
             IN  IF ~ephemeral_point.ok THEN ephemeral_point
                 ELSE LET shared_secret_point ==
                              PublicKey_multiply(ephemeral_point.val, spending_priv_bytes.val)
                      IN  IF ~shared_secret_point.ok THEN shared_secret_point
                          ELSE Ok(PublicKey_format(shared_secret_point.val))

\* derive_stealth_private_key adding the spending scalar, not the viewing one
derive_stealth_private_key_adds_spend(stealth_address, spending_private_key, viewing_private_key, shared_secret_hash) ==
    LET spending_priv_bytes == hex_to_bytes(spending_private_key)
        viewing_priv_bytes == hex_to_bytes(viewing_private_key)
        shared_secret_bytes == recipient_shared_secret(stealth_address, spending_private_key)
    IN  IF ~spending_priv_bytes.ok THEN spending_priv_bytes
        ELSE IF ~viewing_priv_bytes.ok THEN viewing_priv_bytes
        ELSE IF ~shared_secret_bytes.ok THEN shared_secret_bytes
        ELSE LET viewing_scalar == int_from_bytes(spending_priv_bytes.val)
                 hash_scalar == int_from_bytes(shared_secret_hash)
                 stealth_private_scalar == (viewing_scalar + hash_scalar) % CURVE_ORDER
                 stealth_private_key == int_to_bytes(stealth_private_scalar, SCALAR_LEN)
             IN  IF ~stealth_private_key.ok THEN stealth_private_key
                 ELSE Ok(StealthAddressRecovery(stealth_address.address,
                                                stealth_address.ephemeral_public_key,
                                                bytes_to_hex(stealth_private_key.val)))

\* derive_stealth_private_key(stealth, p_spend, p_view); shared_secret_hash is
\* the SHA-256 digest of the shared secret.  Ok(recovery) or the error.
derive_stealth_private_key(stealth_address, spending_private_key, viewing_private_key, shared_secret_hash) ==
    LET spending_priv_bytes == hex_to_bytes(spending_private_key)
        viewing_priv_bytes == hex_to_bytes(viewing_private_key)
        shared_secret_bytes == recipient_shared_secret(stealth_address, spending_private_key)
    IN  IF ~spending_priv_bytes.ok THEN spending_priv_bytes
        ELSE IF ~viewing_priv_bytes.ok THEN viewing_priv_bytes
        ELSE IF ~shared_secret_bytes.ok THEN shared_secret_bytes
        ELSE LET viewing_scalar == int_from_bytes(viewing_priv_bytes.val)
                 hash_scalar == int_from_bytes(shared_secret_hash)
                 stealth_private_scalar == (viewing_scalar + hash_scalar) % CURVE_ORDER
                 stealth_private_key == int_to_bytes(stealth_private_scalar, SCALAR_LEN)
             IN  IF ~stealth_private_key.ok THEN stealth_private_key
                 ELSE Ok(StealthAddressRecovery(stealth_address.address,
                                                stealth_address.ephemeral_public_key,
                                                bytes_to_hex(stealth_private_key.val)))

\* check_stealth_address without the view tag comparison
check_stealth_address_skips_view_tag(stealth_address, spending_private_key, viewing_private_key, shared_secret_hash) ==
    LET spending_priv_bytes == hex_to_bytes(spending_private_key)
        viewing_priv_bytes == hex_to_bytes(viewing_private_key)
        ephemeral_pub_bytes == hex_to_bytes(stealth_address.ephemeral_public_key)
    IN  IF ~spending_priv_bytes.ok THEN spending_priv_bytes
        ELSE IF ~viewing_priv_bytes.ok THEN viewing_priv_bytes
        ELSE IF ~ephemeral_pub_bytes.ok THEN ephemeral_pub_bytes
        ELSE IF ~recipient_shared_secret(stealth_address, spending_private_key).ok
             THEN Ok(FALSE)
        ELSE LET viewing_scalar == int_from_bytes(viewing_priv_bytes.val)
                 hash_scalar == int_from_bytes(shared_secret_hash)
                 stealth_private_scalar == (viewing_scalar + hash_scalar) % CURVE_ORDER
                 expected_pub == PrivateKey_public_key(
                                     BigEndian(stealth_private_scalar, SCALAR_LEN))
                 provided_address == hex_to_bytes(stealth_address.address)
             IN  IF ~expected_pub.ok \/ ~provided_address.ok THEN Ok(FALSE)
                 ELSE Ok(PublicKey_format(expected_pub.val) = provided_address.val)

\* check_stealth_address(stealth, p_spend, p_view); shared_secret_hash is the
\* SHA-256 digest of the shared secret.  Ok(TRUE), Ok(FALSE), or the error of
\* one of the three hex_to_bytes calls made before the try block.
check_stealth_address(stealth_address, spending_private_key, viewing_private_key, shared_secret_hash) ==
    LET spending_priv_bytes == hex_to_bytes(spending_private_key)
        viewing_priv_bytes == hex_to_bytes(viewing_private_key)
        ephemeral_pub_bytes == hex_to_bytes(stealth_address.ephemeral_public_key)
    IN  IF ~spending_priv_bytes.ok THEN spending_priv_bytes
        ELSE IF ~viewing_priv_bytes.ok THEN viewing_priv_bytes
        ELSE IF ~ephemeral_pub_bytes.ok THEN ephemeral_pub_bytes
        ELSE IF ~recipient_shared_secret(stealth_address, spending_private_key).ok
             THEN Ok(FALSE)
        ELSE IF shared_secret_hash[1] # stealth_address.view_tag THEN Ok(FALSE)
        ELSE LET viewing_scalar == int_from_bytes(viewing_priv_bytes.val)
                 hash_scalar == int_from_bytes(shared_secret_hash)
                 stealth_private_scalar == (viewing_scalar + hash_scalar) % CURVE_ORDER
                 expected_pub == PrivateKey_public_key(
                                     BigEndian(stealth_private_scalar, SCALAR_LEN))
                 provided_address == hex_to_bytes(stealth_address.address)
             IN  IF ~expected_pub.ok \/ ~provided_address.ok THEN Ok(FALSE)
                 ELSE Ok(PublicKey_format(expected_pub.val) = provided_address.val)

\* str.split(":"): the tokens between the colons; one more token than colons
RECURSIVE str_split(_)
str_split(text) ==
    LET colons == {i \in 1 .. Len(text) : text[i] = ":"}
    IN  IF colons = {} THEN <<text>>
        ELSE LET i == CHOOSE j \in colons : \A k \in colons : j <= k
             IN  <<SubSeq(text, 1, i - 1)>>
                     \o str_split(SubSeq(text, i + 1, Len(text)))

SIP_PREFIX == <<"s", "i", "p">>

\* encode_stealth_meta_address writing the viewing key before the spending key
encode_viewing_first(meta_address) ==
    SIP_PREFIX \o <<":">> \o meta_address.chain \o <<":">>
        \o meta_address.viewing_key \o <<":">> \o meta_address.spending_key

\* encode_stealth_meta_address(meta_address): the f-string
\* sip:<chain>:<spending_key>:<viewing_key>
encode_stealth_meta_address(meta_address) ==
    SIP_PREFIX \o <<":">> \o meta_address.chain \o <<":">>
        \o meta_address.spending_key \o <<":">> \o meta_address.viewing_key

\* decode_stealth_meta_address without the test of the first token
decode_any_prefix(encoded) ==
    LET parts == str_split(encoded)
    IN  IF Len(parts) # 4 THEN Raise("ValueError")
        ELSE Ok(StealthMetaAddress(parts[3], parts[4], parts[2], None))

\* decode_stealth_meta_address(encoded): the meta-address, label left at its
\* default None, or ValueError
decode_stealth_meta_address(encoded) ==
    LET parts == str_split(encoded)
    IN  IF Len(parts) # 4 \/ parts[1] # SIP_PREFIX THEN Raise("ValueError")
        ELSE Ok(StealthMetaAddress(parts[3], parts[4], parts[2], None))

----------------------------------------------------------------------------
(* The AEAD library (pycryptodome ChaCha20_Poly1305 with a 24-byte nonce,  *)
(* i.e. XChaCha20-Poly1305), by its construction: block 0 of the cipher    *)
(* gives the one-time Poly1305 key (r, s), the following blocks give the   *)
(* keystream that is XORed onto the text, and the tag is the polynomial    *)
(* of the ciphertext and its length evaluated at r, plus s.  The block     *)
(* function is a fixed mixing function here; the tag has fewer values      *)
(* than there are ciphertexts, as the 16-byte tag of Poly1305 has.         *)

KEY_LEN == SCALAR_LEN   \* 32-byte key
NONCE_LEN == 1          \* 24-byte nonce
TAG_LEN == 2            \* 16-byte tag
POLY_P == 5             \* the prime of the polynomial (2^130 - 5)

chacha_block(key, nonce, counter) ==
    LET k == int_from_bytes(key)
        v == int_from_bytes(nonce)
    IN  (5 * k + 3 * v + 7 * counter + (k \div BYTE_BASE) * (v + counter) + 1)
            % Pow(BYTE_BASE, SCALAR_LEN)

Xor(a, b) ==
    HEX_BASE * (((a \div HEX_BASE) + (b \div HEX_BASE)) % HEX_BASE)
        + ((a + b) % HEX_BASE)

\* text XOR keystream; position i uses block i (block 0 is the Poly1305 key)
chacha_xor(key, nonce, text) ==
    [i \in 1 .. Len(text) |-> Xor(text[i], chacha_block(key, nonce, i) % BYTE_BASE)]

RECURSIVE poly_eval(_, _, _)
poly_eval(r, acc, blocks) ==
    IF blocks = <<>> THEN acc
    ELSE poly_eval(r, ((acc + blocks[1]) * r) % POLY_P, Tail(blocks))

\* the tag of a ciphertext: one block per byte (with the pad bit set), then
\* the length block
poly1305_tag(key, nonce, ciphertext) ==
    LET block0 == chacha_block(key, nonce, 0)
        r == block0 % BYTE_BASE
        s == block0 \div BYTE_BASE
        blocks == [i \in 1 .. Len(ciphertext) |-> ciphertext[i] + BYTE_BASE]
                      \o <<Len(ciphertext)>>
    IN  BigEndian((poly_eval(r, 0, blocks) + s) % Pow(BYTE_BASE, TAG_LEN), TAG_LEN)

\* ChaCha20_Poly1305.new(key=, nonce=): ValueError on a wrong key or nonce length
cipher_new(key, nonce) ==
    IF Len(key) # KEY_LEN \/ Len(nonce) # NONCE_LEN THEN Raise("ValueError")
    ELSE Ok([key |-> key, nonce |-> nonce])

\* cipher.encrypt_and_digest(plaintext) = <<ciphertext, tag>>
encrypt_and_digest(cipher, plaintext) ==
    LET ciphertext == chacha_xor(cipher.key, cipher.nonce, plaintext)
    IN  <<ciphertext, poly1305_tag(cipher.key, cipher.nonce, ciphertext)>>

\* cipher.decrypt_and_verify(ciphertext, tag): ValueError unless the tag is
\* the tag of the ciphertext
decrypt_and_verify(cipher, ciphertext, tag) ==
    IF tag # poly1305_tag(cipher.key, cipher.nonce, ciphertext)
    THEN Raise("ValueError")
    ELSE Ok(chacha_xor(cipher.key, cipher.nonce, ciphertext))

----------------------------------------------------------------------------
(* privacy.py                                                              *)

EncryptedPayload(ciphertext, nonce) == [ciphertext |-> ciphertext, nonce |-> nonce]

\* Python slices b[:-k] and b[-k:]
AllButLast(b, k) == SubSeq(b, 1, Len(b) - k)
LastBytes(b, k) == IF Len(b) <= k THEN b ELSE SubSeq(b, Len(b) - k + 1, Len(b))
FirstBytes(b, k) == IF Len(b) <= k THEN b ELSE SubSeq(b, 1, k)
AllButFirst(b, k) == SubSeq(b, k + 1, Len(b))

\* encrypt_for_viewing_key(viewing_key, plaintext); nonce is the
\* secrets.token_bytes(24) draw.  Ok(payload) or the error.
encrypt_for_viewing_key(viewing_key, plaintext, nonce) ==
    LET key_bytes == hex_to_bytes(viewing_key)
    IN  IF ~key_bytes.ok THEN key_bytes
        ELSE LET cipher == cipher_new(key_bytes.val, nonce)
             IN  IF ~cipher.ok THEN cipher
                 ELSE LET ct == encrypt_and_digest(cipher.val, plaintext)
                          ciphertext_with_tag == ct[1] \o ct[2]
                      IN  Ok(EncryptedPayload(bytes_to_hex(ciphertext_with_tag),
                                              bytes_to_hex(nonce)))

\* decrypt_with_viewing_key taking the tag from the front of the blob
decrypt_tag_first(viewing_key, payload) ==
    LET key_bytes == hex_to_bytes(viewing_key)
        nonce_bytes == hex_to_bytes(payload.nonce)
        ciphertext_with_tag == hex_to_bytes(payload.ciphertext)
    IN  IF ~key_bytes.ok THEN key_bytes
        ELSE IF ~nonce_bytes.ok THEN nonce_bytes
        ELSE IF ~ciphertext_with_tag.ok THEN ciphertext_with_tag
        ELSE LET ciphertext == AllButFirst(ciphertext_with_tag.val, TAG_LEN)
                 tag == FirstBytes(ciphertext_with_tag.val, TAG_LEN)
                 cipher == cipher_new(key_bytes.val, nonce_bytes.val)
             IN  IF ~cipher.ok THEN cipher
                 ELSE decrypt_and_verify(cipher.val, ciphertext, tag)

\* decrypt_with_viewing_key calling cipher.decrypt alone: the tag is dropped
\* and never verified
decrypt_unverified(viewing_key, payload) ==
    LET key_bytes == hex_to_bytes(viewing_key)
        nonce_bytes == hex_to_bytes(payload.nonce)
        ciphertext_with_tag == hex_to_bytes(payload.ciphertext)
    IN  IF ~key_bytes.ok THEN key_bytes
        ELSE IF ~nonce_bytes.ok THEN nonce_bytes
        ELSE IF ~ciphertext_with_tag.ok THEN ciphertext_with_tag
        ELSE LET ciphertext == AllButLast(ciphertext_with_tag.val, TAG_LEN)
                 cipher == cipher_new(key_bytes.val, nonce_bytes.val)
             IN  IF ~cipher.ok THEN cipher
                 ELSE Ok(chacha_xor(cipher.val.key, cipher.val.nonce, ciphertext))

\* decrypt_with_viewing_key(viewing_key, payload): Ok(plaintext), or the
\* ValueError of a malformed argument or of the failed tag check
decrypt_with_viewing_key(viewing_key, payload) ==
    LET key_bytes == hex_to_bytes(viewing_key)
        nonce_bytes == hex_to_bytes(payload.nonce)
        ciphertext_with_tag == hex_to_bytes(payload.ciphertext)
    IN  IF ~key_bytes.ok THEN key_bytes
        ELSE IF ~nonce_bytes.ok THEN nonce_bytes
        ELSE IF ~ciphertext_with_tag.ok THEN ciphertext_with_tag
        ELSE LET ciphertext == AllButLast(ciphertext_with_tag.val, TAG_LEN)
                 tag == LastBytes(ciphertext_with_tag.val, TAG_LEN)
                 cipher == cipher_new(key_bytes.val, nonce_bytes.val)
             IN  IF ~cipher.ok THEN cipher
                 ELSE decrypt_and_verify(cipher.val, ciphertext, tag)

ViewingKey(key, key_hash, created_at, label) ==
    [key |-> key, key_hash |-> key_hash, created_at |-> created_at, label |-> label]

\* generate_viewing_key(label); key is the secrets.token_bytes(32) draw,
\* key_hash the SHA-256 digest of key and now the clock reading in ms
generate_viewing_key(label, key, key_hash, now) ==
    ViewingKey(bytes_to_hex(key), bytes_to_hex(key_hash), now, label)

\* derive_viewing_key_hash slicing the key's first two hex digits off as if
\* they were a second 0x prefix
viewing_key_bytes_stripped_twice(viewing_key) ==
    hex_to_bytes(SubSeq(viewing_key, 5, Len(viewing_key)))

\* the bytes derive_viewing_key_hash hands to SHA-256, or the error
viewing_key_bytes(viewing_key) == hex_to_bytes(viewing_key)

\* derive_viewing_key_hash(viewing_key); hash_bytes is the SHA-256 digest of
\* the key bytes.  Ok(hash hex) or the error of hex_to_bytes.
derive_viewing_key_hash(viewing_key, hash_bytes) ==
    LET key_bytes == viewing_key_bytes(viewing_key)
    IN  IF ~key_bytes.ok THEN key_bytes
        ELSE Ok(bytes_to_hex(hash_bytes))

----------------------------------------------------------------------------
(* types.py PrivacyLevel and the policy functions of privacy.py.  A member *)
(* of the str-based enum is modelled by its value; level names are at      *)
(* their real length.                                                      *)

TRANSPARENT == <<"t", "r", "a", "n", "s", "p", "a", "r", "e", "n", "t">>
SHIELDED == <<"s", "h", "i", "e", "l", "d", "e", "d">>
COMPLIANT == <<"c", "o", "m", "p", "l", "i", "a", "n", "t">>

PrivacyLevelValues == {TRANSPARENT, SHIELDED, COMPLIANT}

\* PrivacyLevel(value): the member with that value, or ValueError
PrivacyLevel(value) ==
    IF value \in PrivacyLevelValues THEN Ok(value) ELSE Raise("ValueError")

LOWERCASE == <<"a", "b", "c", "d", "e", "f", "g", "h", "i", "j", "k", "l", "m", "n", "o", "p", "q", "r", "s", "t", "u", "v", "w", "x", "y", "z">>
UPPERCASE == <<"A", "B", "C", "D", "E", "F", "G", "H", "I", "J", "K", "L", "M", "N", "O", "P", "Q", "R", "S", "T", "U", "V", "W", "X", "Y", "Z">>

\* str.lower() on ASCII text
LowerChar(c) ==
    IF \E i \in 1 .. Len(UPPERCASE) : UPPERCASE[i] = c
    THEN LOWERCASE[CHOOSE i \in 1 .. Len(UPPERCASE) : UPPERCASE[i] = c]
    ELSE c

str_lower(text) == [i \in 1 .. Len(text) |-> LowerChar(text[i])]

\* validate_privacy_level looking the text up as it is, without lower()
validate_privacy_level_exact(level) == PrivacyLevel(level)

\* validate_privacy_level(level): the member, or ValueError
validate_privacy_level(level) == PrivacyLevel(str_lower(level))

\* should_encrypt true for the shielded level alone
should_encrypt_shielded_only(level) == level = SHIELDED

should_encrypt(level) == level \in {SHIELDED, COMPLIANT}

should_include_viewing_key(level) == level = COMPLIANT

----------------------------------------------------------------------------
(* Module import: the two generators are computed once, then the other     *)
(* subsystems start idle.                                                  *)

Idle == [phase |-> "idle"]

ImportModule ==
    /\ G_BYTES = get_generator_g
    /\ H_BYTES \in GenerateHOutcomes
    /\ sha = <<>>

----------------------------------------------------------------------------
(* Scenario "open": one commit, then verify_opening of what it returned    *)
(* against any claimed value.                                              *)

ValueSlack == 1
ScalarMax == Pow(BYTE_BASE, SCALAR_LEN) - 1
ValueRange == (0 - ValueSlack) .. (ScalarMax + ValueSlack)
BlindingArgs == {None} \cup {Some(b) : b \in BytesOfLen(SCALAR_LEN)}

OpenStart ==
    [phase |-> "start", value |-> 0, blinding |-> None, out |-> Raise("NotCalled"),
     claimed |-> 0, verdict |-> FALSE]

InitOpen ==
    /\ ImportModule
    /\ cm = OpenStart
    /\ st = Idle /\ ma = Idle /\ ae = Idle
    /\ opt = Idle

\* commit(value, blinding) on any input
DoCommit ==
    /\ cm.phase = "start"
    /\ \E value \in ValueRange, blinding \in BlindingArgs, token \in Digests :
          /\ blinding.some => token = blinding.v      \* no draw when supplied
          /\ cm' = [cm EXCEPT !.phase = "committed", !.value = value,
                              !.blinding = blinding,
                              !.out = commit(value, blinding, token)]
    /\ UNCHANGED <<G_BYTES, H_BYTES, sha, st, ma, ae, opt>>

\* verify_opening(C, claimed, blinding) with the C and blinding commit returned
DoVerify ==
    /\ cm.phase = "committed"
    /\ cm.out.ok
    /\ \E claimed \in ValueRange :
          cm' = [cm EXCEPT !.phase = "verified", !.claimed = claimed,
                           !.verdict = verify_opening(cm.out.val[1], claimed,
                                                      cm.out.val[2])]
    /\ UNCHANGED <<G_BYTES, H_BYTES, sha, st, ma, ae, opt>>

NextOpen == DoCommit \/ DoVerify

SpecOpen == InitOpen /\ [][NextOpen]_vars

\* v*G + r*H as a group element (the point at infinity included)
GroupSum(value, r) ==
    PointAdd(ScalarMul(value, PublicKey(G_BYTES).val),
             ScalarMul(r, PublicKey(H_BYTES).val))

\* the case of C1: a value in [0, n) and a supplied 32-byte blinding whose
\* integer is in [1, n)
OpenInRange ==
    /\ cm.phase # "start"
    /\ cm.value \in 0 .. (CURVE_ORDER - 1)
    /\ cm.blinding.some
    /\ int_from_bytes(cm.blinding.v) \in 1 .. (CURVE_ORDER - 1)

\* C1 as stated: for every v in [0, n) and every blinding r in [1, n),
\* commit(v, r) succeeds and verify_opening(C, v, r) is true.
C1_CommitAlwaysOpens ==
    OpenInRange =>
        /\ cm.out.ok
        /\ (cm.phase = "verified" /\ cm.claimed = cm.value) => cm.verdict

\* C1 amended: the same for every (v, r) whose v*G + r*H is not the point at
\* infinity; for the (v, r) where it is, commit raises and returns nothing.
C1_CommitOpensUnlessInfinity ==
    OpenInRange =>
        IF GroupSum(cm.value, int_from_bytes(cm.blinding.v)) = Infinity
        THEN ~cm.out.ok
        ELSE /\ cm.out.ok
             /\ (cm.phase = "verified" /\ cm.claimed = cm.value) => cm.verdict

C1_Witness ==
    /\ OpenInRange
    /\ cm.phase = "verified"
    /\ cm.value > 0
    /\ cm.claimed = cm.value
    /\ cm.verdict

\* C2: verify_opening of a commitment to v against any other claimed value
\* (negative and >= n included), with the blinding commit returned, is false.
C2_WrongValueRejected ==
    (cm.phase = "verified" /\ cm.claimed # cm.value) => ~cm.verdict

C2_Witness ==
    /\ cm.phase = "verified"
    /\ cm.claimed = cm.value + CURVE_ORDER
    /\ ~cm.verdict

\* C21: a commit that returns, for a supplied blinding b, returns the
\* compressed v*G + (b mod n)*H (only (b mod n)*H when v = 0) and the bytes
\* of b as supplied, not reduced mod n, and verify_opening of the two with
\* the value v is true; so it is for b >= n.
C21_BlindingReturnedUnreduced ==
    (cm.phase # "start" /\ cm.blinding.some /\ cm.out.ok) =>
        LET b == cm.blinding.v
            r == int_from_bytes(b) % CURVE_ORDER
            r_h == Multiple(r, PublicKey(H_BYTES).val)
            C == IF cm.value = 0 THEN r_h
                 ELSE PointAdd(Multiple(cm.value, PublicKey(G_BYTES).val), r_h)
        IN  /\ cm.out.val[1] = bytes_to_hex(PublicKey_format(C))
            /\ cm.out.val[2] = bytes_to_hex(b)
            /\ (cm.phase = "verified" /\ cm.claimed = cm.value) => cm.verdict

C21_Witness ==
    /\ cm.phase = "verified"
    /\ cm.blinding.some
    /\ int_from_bytes(cm.blinding.v) > CURVE_ORDER
    /\ cm.out.ok
    /\ cm.out.val[2] = bytes_to_hex(cm.blinding.v)
    /\ cm.value > 0
    /\ cm.claimed = cm.value
    /\ cm.verdict

----------------------------------------------------------------------------
(* Scenario "homo": two commits with values in [0, n) and blindings in     *)
(* [1, n), then either the sum (add_commitments, add_blindings,            *)
(* verify_opening, commit of the sum) or the difference                    *)
(* (subtract_commitments, subtract_blindings, verify_opening).             *)

InRangeValues == 0 .. (CURVE_ORDER - 1)
InRangeBlindings == {b \in BytesOfLen(SCALAR_LEN) : int_from_bytes(b) \in 1 .. (CURVE_ORDER - 1)}

HomoStart ==
    [phase |-> "start", v1 |-> 0, r1 |-> <<>>, v2 |-> 0, r2 |-> <<>>,
     c1 |-> Raise("NotCalled"), c2 |-> Raise("NotCalled"),
     cmb |-> Raise("NotCalled"), bl |-> Raise("NotCalled"),
     ref |-> Raise("NotCalled"), verdict |-> FALSE]

InitHomo ==
    /\ ImportModule
    /\ cm = HomoStart
    /\ st = Idle /\ ma = Idle /\ ae = Idle
    /\ opt = Idle

CommitFirst ==
    /\ cm.phase = "start"
    /\ \E v \in InRangeValues, r \in InRangeBlindings :
          /\ commit(v, Some(r), r).ok
          /\ cm' = [cm EXCEPT !.phase = "one", !.v1 = v, !.r1 = r,
                              !.c1 = commit(v, Some(r), r)]
    /\ UNCHANGED <<G_BYTES, H_BYTES, sha, st, ma, ae, opt>>

CommitSecond ==
    /\ cm.phase = "one"
    /\ \E v \in InRangeValues, r \in InRangeBlindings :
          /\ commit(v, Some(r), r).ok
          /\ cm' = [cm EXCEPT !.phase = "two", !.v2 = v, !.r2 = r,
                              !.c2 = commit(v, Some(r), r)]
    /\ UNCHANGED <<G_BYTES, H_BYTES, sha, st, ma, ae, opt>>

AddCommitments ==
    /\ cm.phase = "two"
    /\ cm' = [cm EXCEPT !.phase = "added",
                        !.cmb = add_commitments(cm.c1.val[1], cm.c2.val[1])]
    /\ UNCHANGED <<G_BYTES, H_BYTES, sha, st, ma, ae, opt>>

AddBlindings ==
    /\ cm.phase = "added"
    /\ cm' = [cm EXCEPT !.phase = "added_b",
                        !.bl = add_blindings(cm.c1.val[2], cm.c2.val[2])]
    /\ UNCHANGED <<G_BYTES, H_BYTES, sha, st, ma, ae, opt>>

\* verify_opening(sum, v1 + v2, add_blindings(r1, r2))
VerifySum ==
    /\ cm.phase = "added_b"
    /\ cm.cmb.ok /\ cm.bl.ok
    /\ cm' = [cm EXCEPT !.phase = "sum_verified",
                        !.verdict = verify_opening(cm.cmb.val, cm.v1 + cm.v2, cm.bl.val)]
    /\ UNCHANGED <<G_BYTES, H_BYTES, sha, st, ma, ae, opt>>

\* commit(v1 + v2, add_blindings(r1, r2)), the right-hand side of the law
CommitSum ==
    /\ cm.phase \in {"added_b", "sum_verified"}
    /\ cm.bl.ok
    /\ LET b == hex_to_bytes(cm.bl.val).val
       IN  cm' = [cm EXCEPT !.phase = "sum_committed",
                            !.ref = commit(cm.v1 + cm.v2, Some(b), b)]
    /\ UNCHANGED <<G_BYTES, H_BYTES, sha, st, ma, ae, opt>>

SubtractCommitments ==
    /\ cm.phase = "two"
    /\ cm' = [cm EXCEPT !.phase = "subtracted",
                        !.cmb = subtract_commitments(cm.c1.val[1], cm.c2.val[1])]
    /\ UNCHANGED <<G_BYTES, H_BYTES, sha, st, ma, ae, opt>>

SubtractBlindings ==
    /\ cm.phase = "subtracted"
    /\ cm' = [cm EXCEPT !.phase = "subtracted_b",
                        !.bl = subtract_blindings(cm.c1.val[2], cm.c2.val[2])]
    /\ UNCHANGED <<G_BYTES, H_BYTES, sha, st, ma, ae, opt>>

\* verify_opening(difference, v1 - v2, subtract_blindings(r1, r2))
VerifyDifference ==
    /\ cm.phase = "subtracted_b"
    /\ cm.cmb.ok /\ cm.bl.ok
    /\ cm' = [cm EXCEPT !.phase = "diff_verified",
                        !.verdict = verify_opening(cm.cmb.val, cm.v1 - cm.v2, cm.bl.val)]
    /\ UNCHANGED <<G_BYTES, H_BYTES, sha, st, ma, ae, opt>>

NextHomo ==
    \/ CommitFirst
    \/ CommitSecond
    \/ AddCommitments
    \/ AddBlindings
    \/ VerifySum
    \/ CommitSum
    \/ SubtractCommitments
    \/ SubtractBlindings
    \/ VerifyDifference

SpecHomo == InitHomo /\ [][NextHomo]_vars

HomoR1 == int_from_bytes(cm.r1)
HomoR2 == int_from_bytes(cm.r2)

SumPhases == {"added", "added_b", "sum_verified", "sum_committed"}
DiffPhases == {"subtracted", "subtracted_b", "diff_verified"}

\* the case of C3: both commits made, v1 + v2 < n, and the sum taken
SumCase == cm.phase \in SumPhases /\ cm.v1 + cm.v2 < CURVE_ORDER

\* what C3 promises of the sum, at each step made so far
SumLawHolds ==
    /\ cm.cmb.ok
    /\ cm.phase = "sum_verified" => cm.verdict
    /\ cm.phase = "sum_committed" => (cm.ref.ok /\ cm.ref.val[1] = cm.cmb.val)

\* C3 as stated: for all v1 + v2 < n and all r1, r2 in [1, n), add_commitments
\* of the two commitments equals commit(v1 + v2, add_blindings(r1, r2)).C and
\* verify_opening of the sum with v1 + v2 and add_blindings(r1, r2) is true.
C3_SumAlwaysOpens == SumCase => SumLawHolds

\* C3 amended: the law holds whenever r1 + r2 is not 0 mod n and
\* (v1 + v2)*G + (r1 + r2)*H is not the point at infinity.  When r1 + r2 is
\* 0 mod n, commit(v1 + v2, .) raises and verify_opening of the sum is false;
\* when the sum is the point at infinity, add_commitments raises.
C3_SumOpensUnlessDegenerate ==
    SumCase =>
        IF (HomoR1 + HomoR2) % CURVE_ORDER = 0
        THEN /\ cm.phase = "sum_verified" => ~cm.verdict
             /\ cm.phase = "sum_committed" => ~cm.ref.ok
             /\ cm.cmb.ok <=> (cm.v1 + cm.v2 # 0)
        ELSE IF GroupSum(cm.v1 + cm.v2, (HomoR1 + HomoR2) % CURVE_ORDER) = Infinity
        THEN ~cm.cmb.ok
        ELSE SumLawHolds

C3_Witness ==
    /\ SumCase
    /\ cm.phase = "sum_committed"
    /\ HomoR1 + HomoR2 > CURVE_ORDER
    /\ cm.v1 > 0 /\ cm.v2 > 0
    /\ cm.ref.ok /\ cm.ref.val[1] = cm.cmb.val
    /\ cm.verdict

\* the case of C4: both commits made, v1 >= v2, and the difference taken
DiffCase == cm.phase \in DiffPhases /\ cm.v1 >= cm.v2

DiffLawHolds ==
    /\ cm.cmb.ok
    /\ cm.phase = "diff_verified" => cm.verdict

\* C4 as stated: for all v1 >= v2 and all r1, r2 in [1, n),
\* subtract_commitments returns a commitment that verify_opening accepts with
\* v1 - v2 and subtract_blindings(r1, r2).
C4_DifferenceAlwaysOpens == DiffCase => DiffLawHolds

\* C4 amended: the same whenever r1 # r2 and (v1 - v2)*G + (r1 - r2)*H is not
\* the point at infinity.  When r1 = r2, verify_opening of the difference is
\* false (and subtract_commitments raises if also v1 = v2); when the
\* difference is the point at infinity, subtract_commitments raises.
C4_DifferenceOpensUnlessDegenerate ==
    DiffCase =>
        IF HomoR1 = HomoR2
        THEN /\ cm.phase = "diff_verified" => ~cm.verdict
             /\ cm.cmb.ok <=> (cm.v1 # cm.v2)
        ELSE IF GroupSum(cm.v1 - cm.v2, (HomoR1 - HomoR2 + CURVE_ORDER) % CURVE_ORDER) = Infinity
        THEN ~cm.cmb.ok
        ELSE DiffLawHolds

C4_Witness ==
    /\ DiffCase
    /\ cm.phase = "diff_verified"
    /\ cm.v1 > cm.v2
    /\ HomoR1 < HomoR2
    /\ cm.verdict

----------------------------------------------------------------------------
(* SHA-256 (hashlib), sampled lazily: a message hashed before keeps its    *)
(* digest, a new message gets any digest.                                  *)

\* the digests hashlib.sha256(msg.val) can return; when the caller raised
\* before hashing (msg is an error) nothing is hashed and the digest is unused
HashOutcomes(msg) ==
    IF ~msg.ok THEN {<<0, 0>>}
    ELSE IF msg.val \in DOMAIN sha THEN {sha[msg.val]}
    ELSE Digests

\* the function sha after that call
Hashed(msg, d) == IF msg.ok THEN (msg.val :> d) @@ sha ELSE sha

----------------------------------------------------------------------------
(* Scenario "stealth": a meta-address is generated, a sender generates a   *)
(* stealth address for it, the recipient checks it and derives its key.    *)

ChainEth == <<"e", "t", "h">>

StealthStart ==
    [phase |-> "start", meta |-> Raise("NotCalled"), stealth |-> Raise("NotCalled"),
     checked |-> Raise("NotCalled"), recovery |-> Raise("NotCalled"),
     ephemeral_private |-> <<>>]

InitStealth ==
    /\ ImportModule
    /\ st = StealthStart
    /\ cm = Idle /\ ma = Idle /\ ae = Idle
    /\ opt = Idle

GenerateMeta ==
    /\ st.phase = "start"
    /\ \E spending_private \in Digests, viewing_private \in Digests :
          st' = [st EXCEPT !.phase = "meta",
                           !.meta = generate_stealth_meta_address(
                                        ChainEth, None, spending_private, viewing_private)]
    /\ UNCHANGED <<G_BYTES, H_BYTES, sha, cm, ma, ae, opt>>

GenerateStealth ==
    /\ st.phase = "meta"
    /\ st.meta.ok
    /\ \E ephemeral_private \in Digests :
          LET msg == sender_shared_secret(st.meta.val[1], ephemeral_private)
          IN  \E d \in HashOutcomes(msg) :
                  /\ sha' = Hashed(msg, d)
                  /\ st' = [st EXCEPT !.phase = "stealth",
                                      !.ephemeral_private = ephemeral_private,
                                      !.stealth = generate_stealth_address(
                                                      st.meta.val[1], ephemeral_private, d)]
    /\ UNCHANGED <<G_BYTES, H_BYTES, cm, ma, ae, opt>>

\* check_stealth_address(stealth, p_spend, p_view) by the owner of the meta-address
CheckStealth ==
    /\ st.phase = "stealth"
    /\ st.stealth.ok
    /\ LET msg == recipient_shared_secret(st.stealth.val[1], st.meta.val[2])
       IN  \E d \in HashOutcomes(msg) :
              /\ sha' = Hashed(msg, d)
              /\ st' = [st EXCEPT !.phase = "checked",
                                  !.checked = check_stealth_address(
                                                  st.stealth.val[1], st.meta.val[2],
                                                  st.meta.val[3], d)]
    /\ UNCHANGED <<G_BYTES, H_BYTES, cm, ma, ae, opt>>

\* derive_stealth_private_key(stealth, p_spend, p_view) by the owner
DeriveKey ==
    /\ st.phase = "checked"
    /\ LET msg == recipient_shared_secret(st.stealth.val[1], st.meta.val[2])
       IN  \E d \in HashOutcomes(msg) :
              /\ sha' = Hashed(msg, d)
              /\ st' = [st EXCEPT !.phase = "derived",
                                  !.recovery = derive_stealth_private_key(
                                                   st.stealth.val[1], st.meta.val[2],
                                                   st.meta.val[3], d)]
    /\ UNCHANGED <<G_BYTES, H_BYTES, cm, ma, ae, opt>>

NextStealth == GenerateMeta \/ GenerateStealth \/ CheckStealth \/ DeriveKey

SpecStealth == InitStealth /\ [][NextStealth]_vars

\* the shared-secret hash generate_stealth_address returned, as an integer
StealthHashInt == int_from_bytes(hex_to_bytes(st.stealth.val[2]).val)

\* C5: check_stealth_address of a stealth address generated for a generated
\* meta-address, with that meta-address's private keys, returns true.
C5_OwnerRecognisesStealth ==
    st.phase \in {"checked", "derived"} => st.checked = Ok(TRUE)

C5_Witness ==
    /\ st.phase = "checked"
    /\ st.checked = Ok(TRUE)
    /\ StealthHashInt > CURVE_ORDER

\* C6: derive_stealth_private_key with the matching private keys returns a
\* recovery whose stealth_address is stealth.address and whose private_key q
\* is the private key of that address: q*G = stealth.address.
C6_DerivedKeyOpensAddress ==
    st.phase = "derived" =>
        /\ st.recovery.ok
        /\ st.recovery.val.stealth_address = st.stealth.val[1].address
        /\ LET q == hex_to_bytes(st.recovery.val.private_key).val
           IN  /\ PrivateKey_public_key(q).ok
               /\ bytes_to_hex(PublicKey_format(PrivateKey_public_key(q).val))
                      = st.stealth.val[1].address

C6_Witness ==
    /\ st.phase = "derived"
    /\ st.recovery.ok
    /\ StealthHashInt > CURVE_ORDER
    /\ int_from_bytes(hex_to_bytes(st.meta.val[3]).val) + (StealthHashInt % CURVE_ORDER)
           > CURVE_ORDER

\* the points and the hash of the generate_stealth_address call just made
EphemeralScalar == int_from_bytes(st.ephemeral_private)
SpendPoint == PublicKey(hex_to_bytes(st.meta.val[1].spending_key).val).val
ViewPoint == PublicKey(hex_to_bytes(st.meta.val[1].viewing_key).val).val
SharedSecret == PublicKey_format(Multiple(EphemeralScalar, SpendPoint))

ZeroHashSeen ==
    \E msg \in DOMAIN sha : int_from_bytes(sha[msg]) % CURVE_ORDER = 0

\* C18: when the shared-secret hash h is 0 mod n, generate_stealth_address
\* draws another ephemeral scalar instead of failing, so it returns a
\* stealth address, and one whose h is not 0 mod n.
C18_ZeroHashRedrawn ==
    (st.phase = "stealth" /\ ZeroHashSeen)
        => /\ st.stealth.ok
           /\ int_from_bytes(hex_to_bytes(st.stealth.val[2]).val) % CURVE_ORDER # 0

----------------------------------------------------------------------------
(* Scenario "aead": a payload is encrypted for a viewing key; the payload, *)
(* or the key it is opened with, may be changed in one bit or the blob cut *)
(* short before decrypt_with_viewing_key is called.  A hex digit of the    *)
(* scaled encoding is one bit.                                             *)

MaxPlainLen == 1

Plaintexts == UNION {BytesOfLen(k) : k \in 0 .. MaxPlainLen}

ViewingKeys == {bytes_to_hex(k) : k \in BytesOfLen(KEY_LEN)}

AeadStart ==
    [phase |-> "start", key |-> <<>>, plaintext |-> <<>>,
     payload |-> Raise("NotCalled"), dkey |-> <<>>,
     dpayload |-> EncryptedPayload(<<>>, <<>>), tamper |-> "none",
     out |-> Raise("NotCalled")]

InitAead ==
    /\ ImportModule
    /\ ae = AeadStart
    /\ cm = Idle /\ st = Idle /\ ma = Idle
    /\ opt = Idle

\* the hex string with the bit at position i (after the 0x prefix) flipped
FlipBit(hex, i) ==
    [hex EXCEPT ![i + 2] = HexChar((HexVal(hex[i + 2]) + 1) % HEX_BASE)]

BitsOf(hex) == 1 .. (Len(hex) - 2)

\* number of bytes a hex string encodes
BytesIn(hex) == (Len(hex) - 2) \div 2

Encrypt ==
    /\ ae.phase = "start"
    /\ \E viewing_key \in ViewingKeys, plaintext \in Plaintexts,
          nonce \in BytesOfLen(NONCE_LEN) :
          LET payload == encrypt_for_viewing_key(viewing_key, plaintext, nonce)
          IN  ae' = [ae EXCEPT !.phase = "encrypted", !.key = viewing_key,
                               !.plaintext = plaintext, !.payload = payload,
                               !.dkey = viewing_key,
                               !.dpayload = IF payload.ok THEN payload.val
                                            ELSE ae.dpayload]
    /\ UNCHANGED <<G_BYTES, H_BYTES, sha, cm, st, ma, opt>>

FlipCiphertextBit ==
    /\ ae.phase = "encrypted" /\ ae.payload.ok
    /\ \E i \in BitsOf(ae.dpayload.ciphertext) :
          ae' = [ae EXCEPT !.phase = "tampered",
                           !.dpayload.ciphertext = FlipBit(@, i),
                           !.tamper = IF i > Len(ae.dpayload.ciphertext) - 2 - 2 * TAG_LEN
                                      THEN "tag" ELSE "body"]
    /\ UNCHANGED <<G_BYTES, H_BYTES, sha, cm, st, ma, opt>>

FlipNonceBit ==
    /\ ae.phase = "encrypted" /\ ae.payload.ok
    /\ \E i \in BitsOf(ae.dpayload.nonce) :
          ae' = [ae EXCEPT !.phase = "tampered",
                           !.dpayload.nonce = FlipBit(@, i),
                           !.tamper = "nonce"]
    /\ UNCHANGED <<G_BYTES, H_BYTES, sha, cm, st, ma, opt>>

FlipKeyBit ==
    /\ ae.phase = "encrypted" /\ ae.payload.ok
    /\ \E i \in BitsOf(ae.dkey) :
          ae' = [ae EXCEPT !.phase = "tampered",
                           !.dkey = FlipBit(@, i),
                           !.tamper = "key"]
    /\ UNCHANGED <<G_BYTES, H_BYTES, sha, cm, st, ma, opt>>

Truncate ==
    /\ ae.phase = "encrypted" /\ ae.payload.ok
    /\ \E k \in 0 .. (BytesIn(ae.dpayload.ciphertext) - 1) :
          ae' = [ae EXCEPT !.phase = "tampered",
                           !.dpayload.ciphertext = SubSeq(@, 1, 2 + 2 * k),
                           !.tamper = "truncated"]
    /\ UNCHANGED <<G_BYTES, H_BYTES, sha, cm, st, ma, opt>>

Decrypt ==
    /\ ae.phase \in {"encrypted", "tampered"} /\ ae.payload.ok
    /\ ae' = [ae EXCEPT !.phase = "decrypted",
                        !.out = decrypt_with_viewing_key(ae.dkey, ae.dpayload)]
    /\ UNCHANGED <<G_BYTES, H_BYTES, sha, cm, st, ma, opt>>

NextAead ==
    Encrypt \/ FlipCiphertextBit \/ FlipNonceBit \/ FlipKeyBit \/ Truncate \/ Decrypt

SpecAead == InitAead /\ [][NextAead]_vars

\* C9: decrypting an untouched payload with the key it was encrypted for
\* returns the bytes that were encrypted, for every key, nonce and
\* plaintext, the empty plaintext included.
C9_DecryptReturnsPlaintext ==
    (ae.phase = "decrypted" /\ ae.tamper = "none")
        => ae.out = Ok(ae.plaintext)

C9_Witness ==
    /\ ae.phase = "decrypted" /\ ae.tamper = "none"
    /\ ae.plaintext = <<>>
    /\ BytesIn(ae.dpayload.ciphertext) = TAG_LEN
    /\ ae.out = Ok(<<>>)

\* the blob and the cipher state decrypt_with_viewing_key worked on
ReceivedBlob == hex_to_bytes(ae.dpayload.ciphertext).val
ReceivedTagMatches ==
    /\ Len(ReceivedBlob) >= TAG_LEN
    /\ LastBytes(ReceivedBlob, TAG_LEN)
          = poly1305_tag(hex_to_bytes(ae.dkey).val,
                         hex_to_bytes(ae.dpayload.nonce).val,
                         AllButLast(ReceivedBlob, TAG_LEN))

----------------------------------------------------------------------------
(* Scenario "codec": a generated meta-address is encoded and decoded       *)
(* again, and decode_stealth_meta_address is called on arbitrary text.     *)
(* A chain is any string over ChainChars, the colon included; a text is    *)
(* colon-free tokens joined by colons.                                     *)

MaxChainLen == 2
MaxTokens == 5

ChainChars == {"e", ":"}

Strings(chars, maxlen) == UNION {[1 .. k -> chars] : k \in 0 .. maxlen}

Chains == Strings(ChainChars, MaxChainLen)

Labels == {None, Some(<<"l">>)}

TokenSamples == {<<>>, SIP_PREFIX, <<"s", "i">>, <<"e">>}

RECURSIVE str_join(_)
str_join(tokens) ==
    IF Len(tokens) = 1 THEN tokens[1]
    ELSE tokens[1] \o <<":">> \o str_join(Tail(tokens))

Texts == {str_join(t) : t \in UNION {[1 .. k -> TokenSamples] : k \in 1 .. MaxTokens}}

CodecStart ==
    [phase |-> "start", meta |-> Raise("NotCalled"), encoded |-> <<>>,
     decoded |-> Raise("NotCalled")]

InitCodec ==
    /\ ImportModule
    /\ ma = CodecStart
    /\ cm = Idle /\ st = Idle /\ ae = Idle
    /\ opt = Idle

GenerateMetaFor ==
    /\ ma.phase = "start"
    /\ \E chain \in Chains, label \in Labels,
          spending_private \in Digests, viewing_private \in Digests :
          ma' = [ma EXCEPT !.phase = "meta",
                           !.meta = generate_stealth_meta_address(
                                        chain, label, spending_private, viewing_private)]
    /\ UNCHANGED <<G_BYTES, H_BYTES, sha, cm, st, ae, opt>>

EncodeMeta ==
    /\ ma.phase = "meta" /\ ma.meta.ok
    /\ ma' = [ma EXCEPT !.phase = "encoded",
                        !.encoded = encode_stealth_meta_address(ma.meta.val[1])]
    /\ UNCHANGED <<G_BYTES, H_BYTES, sha, cm, st, ae, opt>>

DecodeEncoded ==
    /\ ma.phase = "encoded"
    /\ ma' = [ma EXCEPT !.phase = "decoded",
                        !.decoded = decode_stealth_meta_address(ma.encoded)]
    /\ UNCHANGED <<G_BYTES, H_BYTES, sha, cm, st, ae, opt>>

DecodeText ==
    /\ ma.phase = "start"
    /\ \E text \in Texts :
          ma' = [ma EXCEPT !.phase = "decoded_text", !.encoded = text,
                           !.decoded = decode_stealth_meta_address(text)]
    /\ UNCHANGED <<G_BYTES, H_BYTES, sha, cm, st, ae, opt>>

NextCodec == GenerateMetaFor \/ EncodeMeta \/ DecodeEncoded \/ DecodeText

SpecCodec == InitCodec /\ [][NextCodec]_vars

HasColon(text) == \E i \in 1 .. Len(text) : text[i] = ":"

\* C7 as stated: decoding the encoding of a generated meta-address gives
\* back a meta-address equal to it in chain, spending key, viewing key and
\* label, whatever the chain string and the label.
C7_DecodeRestoresEveryField ==
    ma.phase = "decoded" => ma.decoded = Ok(ma.meta.val[1])

\* C7, amended: for a generated meta-address whose chain holds no colon,
\* decoding its encoding restores chain, spending key and viewing key and
\* leaves the label None, so the result equals the original exactly when the
\* original had no label; when the chain holds a colon, decoding raises
\* ValueError.
C7_DecodeRestoresKeysAndChain ==
    ma.phase = "decoded"
        => LET original == ma.meta.val[1]
           IN  IF HasColon(original.chain) THEN ma.decoded = Raise("ValueError")
               ELSE /\ ma.decoded.ok
                    /\ ma.decoded.val.chain = original.chain
                    /\ ma.decoded.val.spending_key = original.spending_key
                    /\ ma.decoded.val.viewing_key = original.viewing_key
                    /\ ma.decoded.val.label = None
                    /\ (ma.decoded.val = original) <=> (original.label = None)

C7_Witness ==
    /\ ma.phase = "decoded"
    /\ ma.meta.val[1].chain = <<"e", "e">>
    /\ ma.meta.val[1].label = None
    /\ ma.meta.val[1].spending_key # ma.meta.val[1].viewing_key
    /\ ma.decoded = Ok(ma.meta.val[1])

ColonCount(text) == Cardinality({i \in 1 .. Len(text) : text[i] = ":"})

\* C8: decode raises ValueError exactly when the text does not split on
\* colons into four tokens (three colons) or does not begin with the token
\* sip; otherwise it returns the meta-address whose chain, spending key and
\* viewing key are the colon-free second, third and fourth token, with no
\* label, whether or not the key tokens are keys.
C8_DecodeChecksShapeOnly ==
    ma.phase = "decoded_text"
        => IF ColonCount(ma.encoded) # 3
              \/ ~str_startswith(ma.encoded, SIP_PREFIX \o <<":">>)
           THEN ma.decoded = Raise("ValueError")
           ELSE /\ ma.decoded.ok
                /\ ma.decoded.val.label = None
                /\ ~HasColon(ma.decoded.val.chain)
                /\ ~HasColon(ma.decoded.val.spending_key)
                /\ ~HasColon(ma.decoded.val.viewing_key)
                /\ ma.encoded = SIP_PREFIX \o <<":">> \o ma.decoded.val.chain
                       \o <<":">> \o ma.decoded.val.spending_key
                       \o <<":">> \o ma.decoded.val.viewing_key

C8_Witness ==
    /\ ma.phase = "decoded_text"
    /\ ma.decoded.ok
    /\ ~hex_to_bytes(ma.decoded.val.spending_key).ok
    /\ ma.decoded.val.viewing_key = <<>>

----------------------------------------------------------------------------
(* Scenario "viewkey": a viewing key is generated and its hash derived     *)
(* again from the key.                                                     *)

MaxClock == 2

ViewKeyStart ==
    [phase |-> "start", vk |-> ViewingKey(<<>>, <<>>, 0, None),
     derived |-> Raise("NotCalled")]

InitViewKey ==
    /\ ImportModule
    /\ ae = ViewKeyStart
    /\ cm = Idle /\ st = Idle /\ ma = Idle
    /\ opt = Idle

GenerateViewingKey ==
    /\ ae.phase = "start"
    /\ \E label \in Labels, key \in BytesOfLen(KEY_LEN), now \in 1 .. MaxClock :
          \E d \in HashOutcomes(Ok(key)) :
              /\ sha' = Hashed(Ok(key), d)
              /\ ae' = [ae EXCEPT !.phase = "generated",
                                  !.vk = generate_viewing_key(label, key, d, now)]
    /\ UNCHANGED <<G_BYTES, H_BYTES, cm, st, ma, opt>>

DeriveViewingKeyHash ==
    /\ ae.phase = "generated"
    /\ LET msg == viewing_key_bytes(ae.vk.key)
       IN  \E d \in HashOutcomes(msg) :
              /\ sha' = Hashed(msg, d)
              /\ ae' = [ae EXCEPT !.phase = "derived",
                                  !.derived = derive_viewing_key_hash(ae.vk.key, d)]
    /\ UNCHANGED <<G_BYTES, H_BYTES, cm, st, ma, opt>>

NextViewKey == GenerateViewingKey \/ DeriveViewingKeyHash

SpecViewKey == InitViewKey /\ [][NextViewKey]_vars

\* C11: the key_hash of a generated viewing key is the SHA-256 digest of the
\* key's bytes, and derive_viewing_key_hash(vk.key) returns that same hash.
C11_KeyHashIsHashOfKey ==
    /\ ae.phase # "start"
          => /\ hex_to_bytes(ae.vk.key).ok
             /\ hex_to_bytes(ae.vk.key).val \in DOMAIN sha
             /\ ae.vk.key_hash = bytes_to_hex(sha[hex_to_bytes(ae.vk.key).val])
    /\ ae.phase = "derived" => ae.derived = Ok(ae.vk.key_hash)

C11_Witness ==
    /\ ae.phase = "derived"
    /\ ae.derived = Ok(ae.vk.key_hash)
    /\ ae.vk.key # ae.vk.key_hash
    /\ ae.vk.label # None

----------------------------------------------------------------------------
(* Scenario "scan": check_stealth_address is called on untrusted input,    *)
(* each text field drawn from well-formed and malformed samples.           *)

MaxViewTag == 1

NotHex == <<"0", "x", "g", "g">>
OddHex == <<"0", "x", "1">>

\* two keys, an x that is on no curve point, a bad prefix byte, a short key
PointTexts ==
    {bytes_to_hex(<<2, 1, 3>>), bytes_to_hex(<<3, 1, 3>>), bytes_to_hex(<<2, 0, 1>>),
     bytes_to_hex(<<0, 1, 3>>), bytes_to_hex(<<2, 1>>), OddHex, NotHex}

\* two scalars, zero, the group order, a long and a short scalar
ScalarTexts ==
    {bytes_to_hex(<<0, 1>>), bytes_to_hex(<<0, 3>>), bytes_to_hex(<<0, 0>>),
     bytes_to_hex(BigEndian(CURVE_ORDER, SCALAR_LEN)), bytes_to_hex(<<0, 0, 1>>),
     bytes_to_hex(<<1>>), OddHex, NotHex}

ScanStart ==
    [phase |-> "start", stealth |-> StealthAddress(<<>>, <<>>, 0),
     spending_private_key |-> <<>>, viewing_private_key |-> <<>>,
     checked |-> Raise("NotCalled")]

InitScan ==
    /\ ImportModule
    /\ st = ScanStart
    /\ cm = Idle /\ ma = Idle /\ ae = Idle
    /\ opt = Idle

ScanAddress ==
    /\ st.phase = "start"
    /\ \E address \in PointTexts, ephemeral_public_key \in PointTexts,
          view_tag \in 0 .. MaxViewTag,
          spending_private_key \in ScalarTexts, viewing_private_key \in ScalarTexts :
          LET stealth == StealthAddress(address, ephemeral_public_key, view_tag)
              msg == recipient_shared_secret(stealth, spending_private_key)
          IN  \E d \in HashOutcomes(msg) :
                  /\ sha' = Hashed(msg, d)
                  /\ st' = [phase |-> "scanned", stealth |-> stealth,
                            spending_private_key |-> spending_private_key,
                            viewing_private_key |-> viewing_private_key,
                            checked |-> check_stealth_address(
                                            stealth, spending_private_key,
                                            viewing_private_key, d)]
    /\ UNCHANGED <<G_BYTES, H_BYTES, cm, ma, ae, opt>>

NextScan == ScanAddress

SpecScan == InitScan /\ [][NextScan]_vars

\* C12: check_stealth_address never raises: whatever the stealth address and
\* the keys it is given, malformed ones included, it returns a boolean.
C12_CheckNeverRaises ==
    st.phase = "scanned" => st.checked.ok

\* the shared secret of the scanned address, and whether its hash h exists
ScannedSecret == recipient_shared_secret(st.stealth, st.spending_private_key)

\* the view tag is the first byte of h
ScannedTagMatches == st.stealth.view_tag = sha[ScannedSecret.val][1]

\* the address is the compressed ((p_view + h) mod n)*G
ScannedAddressMatches ==
    LET p_view == int_from_bytes(hex_to_bytes(st.viewing_private_key).val)
        h == int_from_bytes(sha[ScannedSecret.val])
        q == (p_view + h) % CURVE_ORDER
        address == hex_to_bytes(st.stealth.address)
    IN  /\ q # 0
        /\ address.ok
        /\ address.val = PublicKey_format(Multiple(q, BasePoint))

\* C25: check_stealth_address returns true exactly when the view tag is the
\* first byte of h = SHA-256(compressed(p_spend*R)) and the address is
\* ((p_view + h) mod n)*G; a right address with a wrong view tag is refused.
C25_TrueIffTagAndAddressMatch ==
    st.phase = "scanned" =>
        (st.checked = Ok(TRUE)
            <=> /\ ScannedSecret.ok
                /\ hex_to_bytes(st.viewing_private_key).ok
                /\ ScannedTagMatches
                /\ ScannedAddressMatches)

C25_Witness ==
    /\ st.phase = "scanned"
    /\ ScannedSecret.ok
    /\ hex_to_bytes(st.viewing_private_key).ok
    /\ ScannedAddressMatches
    /\ ~ScannedTagMatches
    /\ st.checked = Ok(FALSE)

----------------------------------------------------------------------------
(* Scenario "judge": verify_opening is called on untrusted input: any      *)
(* commitment text, any value, any blinding text.                          *)

CommitmentTexts == {bytes_to_hex(PublicKey_format(P)) : P \in ValidPoints} \cup PointTexts

BlindingTexts == {bytes_to_hex(b) : b \in BytesOfLen(SCALAR_LEN)} \cup ScalarTexts

JudgeStart ==
    [phase |-> "start", commitment |-> <<>>, value |-> 0, blinding |-> <<>>,
     verdict |-> FALSE]

InitJudge ==
    /\ ImportModule
    /\ cm = JudgeStart
    /\ st = Idle /\ ma = Idle /\ ae = Idle
    /\ opt = Idle

VerifyAny ==
    /\ cm.phase = "start"
    /\ \E commitment \in CommitmentTexts, value \in ValueRange,
          blinding \in BlindingTexts :
          cm' = [phase |-> "judged", commitment |-> commitment, value |-> value,
                 blinding |-> blinding,
                 verdict |-> verify_opening(commitment, value, blinding)]
    /\ UNCHANGED <<G_BYTES, H_BYTES, sha, st, ma, ae, opt>>

NextJudge == VerifyAny

SpecJudge == InitJudge /\ [][NextJudge]_vars

\* the inputs C13 names: a commitment or blinding text that is not hex, a
\* value below 0 or not below n, a blinding that is 0 mod n
JudgedBadInput ==
    \/ ~hex_to_bytes(cm.commitment).ok
    \/ ~hex_to_bytes(cm.blinding).ok
    \/ cm.value < 0
    \/ cm.value >= CURVE_ORDER
    \/ int_from_bytes(hex_to_bytes(cm.blinding).val) % CURVE_ORDER = 0

\* C13: verify_opening returns False, and does not raise, for a malformed
\* commitment hex, a malformed blinding hex, a negative value, a value >= n
\* and a blinding that reduces to 0 mod n.
C13_BadInputJudgedFalse ==
    (cm.phase = "judged" /\ JudgedBadInput) => cm.verdict = FALSE

\* a commitment that is value*G, offered with a zero blinding, is refused
C13_Witness ==
    /\ cm.phase = "judged"
    /\ cm.value \in 1 .. (CURVE_ORDER - 1)
    /\ hex_to_bytes(cm.blinding) = Ok(<<0, 0>>)
    /\ hex_to_bytes(cm.commitment) = point_multiply(cm.value, G_BYTES)
    /\ cm.verdict = FALSE

----------------------------------------------------------------------------
(* Scenario "reject": commit is called with any value and with no          *)
(* blinding or a blinding of any length up to one byte over the 32.        *)

AnyLengthBlindings ==
    {None} \cup {Some(b) : b \in UNION {BytesOfLen(k) : k \in 0 .. (SCALAR_LEN + 1)}}

RejectStart ==
    [phase |-> "start", value |-> 0, blinding |-> None, drawn |-> <<>>,
     out |-> Raise("NotCalled")]

InitReject ==
    /\ ImportModule
    /\ cm = RejectStart
    /\ st = Idle /\ ma = Idle /\ ae = Idle
    /\ opt = Idle

CommitAny ==
    /\ cm.phase = "start"
    /\ \E value \in ValueRange, blinding \in AnyLengthBlindings, token \in Digests :
          /\ blinding.some => token = <<0, 0>>      \* no draw when supplied
          /\ cm' = [phase |-> "committed", value |-> value, blinding |-> blinding,
                    drawn |-> IF blinding.some THEN <<>> ELSE token,
                    out |-> commit(value, blinding, token)]
    /\ UNCHANGED <<G_BYTES, H_BYTES, sha, st, ma, ae, opt>>

NextReject == CommitAny

SpecReject == InitReject /\ [][NextReject]_vars

\* the blinding bytes commit works with, and their scalar
UsedBlinding == IF cm.blinding.some THEN cm.blinding.v ELSE cm.drawn
UsedScalar == int_from_bytes(UsedBlinding) % CURVE_ORDER

\* the four cases C14 names
NamedRejection ==
    \/ cm.value < 0
    \/ cm.value >= CURVE_ORDER
    \/ cm.blinding.some /\ Len(cm.blinding.v) # SCALAR_LEN
    \/ UsedScalar = 0

\* C14 as stated: commit raises and returns no commitment when the value is
\* negative or >= n, when a supplied blinding is not 32 bytes long and when
\* the blinding is 0 mod n, and returns a commitment in every other case.
C14_RejectsExactlyNamedCases ==
    cm.phase = "committed" => (~cm.out.ok <=> NamedRejection)

\* C14, amended: commit raises in the four named cases and also when
\* v*G + r*H is the point at infinity; in every other case it returns a
\* commitment.
C14_RejectsNamedCasesAndInfinity ==
    cm.phase = "committed"
        => (~cm.out.ok <=> (NamedRejection
                              \/ GroupSum(cm.value, UsedScalar) = Infinity))

C14_Witness ==
    /\ cm.phase = "committed"
    /\ cm.value \in 1 .. (CURVE_ORDER - 1)
    /\ cm.blinding.some /\ Len(cm.blinding.v) = SCALAR_LEN + 1
    /\ UsedScalar # 0
    /\ GroupSum(cm.value, UsedScalar) # Infinity
    /\ cm.out = Raise("ValueError")

----------------------------------------------------------------------------
(* Scenario "session": after import, public operations are called in any   *)
(* order, MaxCalls of them, get_generators among them.  The record keeps   *)
(* the generators as imported, the first answer of get_generators, and the *)
(* last call with its result.                                              *)

MaxCalls == 3

SessionValues == {0, 1, CURVE_ORDER}
SessionBlindings == {<<0, 1>>, <<0, 3>>}
SessionPoints == {bytes_to_hex(<<2, 1, 3>>), bytes_to_hex(<<3, 1, 3>>)}

InitSession ==
    /\ ImportModule
    /\ cm = [phase |-> "session", calls |-> 0,
             imported |-> <<G_BYTES, H_BYTES>>,
             first |-> Raise("NotCalled"), op |-> "import",
             last |-> Raise("NotCalled")]
    /\ st = Idle /\ ma = Idle /\ ae = Idle
    /\ opt = Idle

Called(op, result) ==
    [cm EXCEPT !.calls = @ + 1, !.op = op, !.last = result]

CallGetGenerators ==
    /\ cm.phase = "session" /\ cm.calls < MaxCalls
    /\ cm' = [Called("get_generators", Ok(get_generators))
                 EXCEPT !.first = IF cm.first.ok THEN @ ELSE Ok(get_generators)]
    /\ UNCHANGED <<G_BYTES, H_BYTES, sha, st, ma, ae, opt>>

CallCommit ==
    /\ cm.phase = "session" /\ cm.calls < MaxCalls
    /\ \E value \in SessionValues, blinding \in SessionBlindings :
          cm' = Called("commit", commit(value, Some(blinding), blinding))
    /\ UNCHANGED <<G_BYTES, H_BYTES, sha, st, ma, ae, opt>>

CallVerifyOpening ==
    /\ cm.phase = "session" /\ cm.calls < MaxCalls
    /\ \E commitment \in SessionPoints, value \in SessionValues,
          blinding \in SessionBlindings :
          cm' = Called("verify_opening",
                       Ok(verify_opening(commitment, value, bytes_to_hex(blinding))))
    /\ UNCHANGED <<G_BYTES, H_BYTES, sha, st, ma, ae, opt>>

CallHomomorphic ==
    /\ cm.phase = "session" /\ cm.calls < MaxCalls
    /\ \/ \E c1 \in SessionPoints, c2 \in SessionPoints :
             \/ cm' = Called("add_commitments", add_commitments(c1, c2))
             \/ cm' = Called("subtract_commitments", subtract_commitments(c1, c2))
       \/ \E b1 \in SessionBlindings, b2 \in SessionBlindings :
             \/ cm' = Called("add_blindings",
                             add_blindings(bytes_to_hex(b1), bytes_to_hex(b2)))
             \/ cm' = Called("subtract_blindings",
                             subtract_blindings(bytes_to_hex(b1), bytes_to_hex(b2)))
    /\ UNCHANGED <<G_BYTES, H_BYTES, sha, st, ma, ae, opt>>

CallStealth ==
    /\ cm.phase = "session" /\ cm.calls < MaxCalls
    /\ \E spending_private \in SessionBlindings, viewing_private \in SessionBlindings :
          cm' = Called("generate_stealth_meta_address",
                       generate_stealth_meta_address(ChainEth, None,
                                                     spending_private, viewing_private))
    /\ UNCHANGED <<G_BYTES, H_BYTES, sha, st, ma, ae, opt>>

CallEncrypt ==
    /\ cm.phase = "session" /\ cm.calls < MaxCalls
    /\ \E key \in SessionBlindings, nonce \in BytesOfLen(NONCE_LEN) :
          cm' = Called("encrypt_for_viewing_key",
                       encrypt_for_viewing_key(bytes_to_hex(key), <<1>>, nonce))
    /\ UNCHANGED <<G_BYTES, H_BYTES, sha, st, ma, ae, opt>>

NextSession ==
    \/ CallGetGenerators \/ CallCommit \/ CallVerifyOpening
    \/ CallHomomorphic \/ CallStealth \/ CallEncrypt

SpecSession == InitSession /\ [][NextSession]_vars

\* the coordinates of a compressed generator, decompressed
GeneratorCoordinates(point_bytes) ==
    LET P == PublicKey(point_bytes).val
    IN  [x |-> bytes_to_hex(BigEndian(P[1], SCALAR_LEN)),
         y |-> bytes_to_hex(BigEndian(P[2], SCALAR_LEN))]

----------------------------------------------------------------------------
(* Scenario "policy": a text is validated as a privacy level, and the two  *)
(* policy predicates are asked about the level it gave.  The texts are the *)
(* three level names in every mix of letter case, and some other texts.    *)

UpperChar(c) ==
    IF \E i \in 1 .. Len(LOWERCASE) : LOWERCASE[i] = c
    THEN UPPERCASE[CHOOSE i \in 1 .. Len(LOWERCASE) : LOWERCASE[i] = c]
    ELSE c

CaseVariants(name) ==
    {[i \in 1 .. Len(name) |-> IF i \in S THEN UpperChar(name[i]) ELSE name[i]] :
        S \in SUBSET (1 .. Len(name))}

OtherTexts ==
    {<<>>, <<"s">>, SubSeq(SHIELDED, 1, Len(SHIELDED) - 1), SHIELDED \o <<" ">>,
     <<" ">> \o COMPLIANT, SHIELDED \o <<"1">>, <<"p", "u", "b", "l", "i", "c">>,
     <<"P", "R", "I", "V", "A", "T", "E">>, COMPLIANT \o COMPLIANT}

LevelTexts == UNION {CaseVariants(name) : name \in PrivacyLevelValues} \cup OtherTexts

PolicyStart ==
    [phase |-> "start", text |-> <<>>, level |-> Raise("NotCalled"),
     encrypt |-> FALSE, include |-> FALSE]

InitPolicy ==
    /\ ImportModule
    /\ ae = PolicyStart
    /\ cm = Idle /\ st = Idle /\ ma = Idle
    /\ opt = Idle

ValidateLevel ==
    /\ ae.phase = "start"
    /\ \E text \in LevelTexts :
          ae' = [ae EXCEPT !.phase = "validated", !.text = text,
                           !.level = validate_privacy_level(text)]
    /\ UNCHANGED <<G_BYTES, H_BYTES, sha, cm, st, ma, opt>>

ApplyPolicy ==
    /\ ae.phase = "validated" /\ ae.level.ok
    /\ ae' = [ae EXCEPT !.phase = "decided",
                        !.encrypt = should_encrypt(ae.level.val),
                        !.include = should_include_viewing_key(ae.level.val)]
    /\ UNCHANGED <<G_BYTES, H_BYTES, sha, cm, st, ma, opt>>

NextPolicy == ValidateLevel \/ ApplyPolicy

SpecPolicy == InitPolicy /\ [][NextPolicy]_vars

\* C16: over the three levels, should_encrypt is true for shielded and
\* compliant and false for transparent, and should_include_viewing_key is
\* true for compliant and false for the other two.
C16_PolicyTable ==
    ae.phase = "decided"
        => \/ ae.level.val = TRANSPARENT /\ ~ae.encrypt /\ ~ae.include
           \/ ae.level.val = SHIELDED /\ ae.encrypt /\ ~ae.include
           \/ ae.level.val = COMPLIANT /\ ae.encrypt /\ ae.include

C16_Witness ==
    /\ ae.phase = "decided"
    /\ ae.level.val = COMPLIANT
    /\ ae.encrypt /\ ae.include

\* text and name are the same up to the case of their letters
SameLetters(text, name) ==
    /\ Len(text) = Len(name)
    /\ \A i \in 1 .. Len(name) : text[i] \in {name[i], UpperChar(name[i])}

\* C17: validate_privacy_level returns the level whose name the text spells
\* in any letter case, and raises ValueError for every other text.
C17_ValidateIgnoresCaseOnly ==
    ae.phase = "validated"
        => IF \E name \in PrivacyLevelValues : SameLetters(ae.text, name)
           THEN ae.level.ok /\ SameLetters(ae.text, ae.level.val)
           ELSE ae.level = Raise("ValueError")

C17_Witness ==
    /\ ae.phase = "validated"
    /\ ae.text # SHIELDED
    /\ Len(ae.text) = Len(SHIELDED)
    /\ ae.text[1] = "S" /\ ae.text[2] = "h"
    /\ ae.level = Ok(SHIELDED)

----------------------------------------------------------------------------
(* Scenario "import": the module-level statements of commitment.py run:    *)
(* _H_BYTES = _generate_h(), then _G_BYTES = _get_generator_g().  digest   *)
(* is the SHA-256 digest of "<H_DOMAIN>:<counter>" for each counter; the   *)
(* constants are empty until they are assigned.                            *)

ImportStart(digest) ==
    [phase |-> "importing", digest |-> digest, h |-> Raise("NotCalled")]

InitImport ==
    /\ G_BYTES = <<>> /\ H_BYTES = <<>> /\ sha = <<>>
    /\ \E digest \in [0 .. (H_ATTEMPTS - 1) -> Digests] : cm = ImportStart(digest)
    /\ st = Idle /\ ma = Idle /\ ae = Idle
    /\ opt = Idle

\* line 67: the import stops with the RuntimeError when _generate_h raises
AssignH ==
    /\ cm.phase = "importing"
    /\ LET h == generate_h(cm.digest)
       IN  /\ cm' = [cm EXCEPT !.phase = IF h.ok THEN "h_assigned" ELSE "failed",
                               !.h = h]
           /\ H_BYTES' = IF h.ok THEN h.val ELSE H_BYTES
    /\ UNCHANGED <<G_BYTES, sha, st, ma, ae, opt>>

\* line 92
AssignG ==
    /\ cm.phase = "h_assigned"
    /\ G_BYTES' = get_generator_g
    /\ cm' = [cm EXCEPT !.phase = "imported"]
    /\ UNCHANGED <<H_BYTES, sha, st, ma, ae, opt>>

NextImport == AssignH \/ AssignG

SpecImport == InitImport /\ [][NextImport]_vars

\* 02 || digest is the compressed form of a point of the curve with even y
LiftsToPoint(digest) ==
    \E P \in ValidPoints : P[1] = int_from_bytes(digest) /\ P[2] % 2 = 0

LiftingCounters == {c \in 0 .. (H_ATTEMPTS - 1) : LiftsToPoint(cm.digest[c])}

\* C19: H is 02 || digest of the smallest counter whose candidate is a point
\* of the curve, every smaller counter's candidate being none; when no
\* counter gives a point the import fails with RuntimeError and there is no
\* H.  What the import leaves is what every scenario starts from.
C19_HIsFirstLiftingCandidate ==
    /\ cm.phase \in {"h_assigned", "imported"}
          => /\ LiftingCounters # {}
             /\ \E c \in LiftingCounters :
                   /\ H_BYTES = <<2>> \o cm.digest[c]
                   /\ \A b \in 0 .. (c - 1) : ~LiftsToPoint(cm.digest[b])
             /\ PublicKey(H_BYTES).ok
    /\ cm.phase = "failed"
          => /\ LiftingCounters = {}
             /\ cm.h = Raise("RuntimeError")
             /\ H_BYTES = <<>>
    /\ cm.phase = "imported" => ImportModule

C19_Witness ==
    /\ cm.phase = "imported"
    /\ ~LiftsToPoint(cm.digest[0])
    /\ H_BYTES = <<2>> \o cm.digest[1]
    /\ H_BYTES # G_BYTES


----------------------------------------------------------------------------
(* Scenario "subtract": subtract_commitments is called with a valid first  *)
(* commitment and any text as the second: every leading byte before every  *)
(* x-coordinate, wrong lengths, and texts that are not hex.                *)

MinuendTexts == {bytes_to_hex(PublicKey_format(P)) : P \in ValidPoints}

SubtrahendTexts ==
    {bytes_to_hex(<<lead>> \o x) : lead \in ByteVals, x \in Digests}
        \cup {bytes_to_hex(b) : b \in BytesOfLen(SCALAR_LEN)}
        \cup {bytes_to_hex(<<2>> \o x \o <<0>>) : x \in Digests}
        \cup {<<"0", "x">>, NotHex, OddHex}

SubtractStart == [phase |-> "start", c1 |-> <<>>, c2 |-> <<>>, out |-> Raise("NotCalled")]

InitSubtract ==
    /\ ImportModule
    /\ cm = SubtractStart
    /\ st = Idle /\ ma = Idle /\ ae = Idle
    /\ opt = Idle

SubtractAny ==
    /\ cm.phase = "start"
    /\ \E c1 \in MinuendTexts, c2 \in SubtrahendTexts :
          cm' = [phase |-> "subtracted", c1 |-> c1, c2 |-> c2,
                 out |-> subtract_commitments(c1, c2)]
    /\ UNCHANGED <<G_BYTES, H_BYTES, sha, st, ma, ae, opt>>

NextSubtract == SubtractAny

SpecSubtract == InitSubtract /\ [][NextSubtract]_vars

\* the text is the hex of PUBKEY_LEN bytes led by 02 or 03
WellFormedCompressed(text) ==
    /\ hex_to_bytes(text).ok
    /\ Len(hex_to_bytes(text).val) = PUBKEY_LEN
    /\ hex_to_bytes(text).val[1] \in {2, 3}

\* C22: subtract_commitments raises for every second argument that is not a
\* well-formed compressed point (wrong length, or a leading byte other than
\* 02/03); it returns no result for such an argument.
C22_MalformedSubtrahendRejected ==
    (cm.phase = "subtracted" /\ ~WellFormedCompressed(cm.c2)) => ~cm.out.ok


----------------------------------------------------------------------------
(* Python numbers used by optimizations.py.  An int is unbounded; a float  *)
(* is an IEEE-754 double, kept here as sign, significand and exponent with *)
(* the significand a little-endian sequence of bits, so that products of   *)
(* 53-bit significands are exact before they are rounded.                  *)

MANT_BITS == 53         \* significand bits of a double

RECURSIVE ToBits(_)
ToBits(n) == IF n = 0 THEN <<>> ELSE <<n % 2>> \o ToBits(n \div 2)

RECURSIVE FromBits(_)
FromBits(b) == IF b = <<>> THEN 0 ELSE Head(b) + 2 * FromBits(Tail(b))

RECURSIVE AddBits(_, _, _)
AddBits(a, b, carry) ==
    IF a = <<>> /\ b = <<>> THEN (IF carry = 1 THEN <<1>> ELSE <<>>)
    ELSE LET x == IF a = <<>> THEN 0 ELSE Head(a)
             y == IF b = <<>> THEN 0 ELSE Head(b)
             s == x + y + carry
         IN  <<s % 2>> \o AddBits(IF a = <<>> THEN a ELSE Tail(a),
                                  IF b = <<>> THEN b ELSE Tail(b), s \div 2)

\* the bits of a sequence of column sums, carries propagated upward
RECURSIVE Carry(_, _)
Carry(columns, carry) ==
    IF columns = <<>> THEN ToBits(carry)
    ELSE LET s == Head(columns) + carry
         IN  <<s % 2>> \o Carry(Tail(columns), s \div 2)

\* long multiplication: column k sums the products a[i] * b[j] with i + j = k + 1
MulBits(a, b) ==
    IF a = <<>> \/ b = <<>> THEN <<>>
    ELSE Carry([k \in 1 .. (Len(a) + Len(b) - 1) |->
                   Cardinality({i \in 1 .. Len(a) :
                       /\ a[i] = 1
                       /\ (k + 1 - i) \in 1 .. Len(b)
                       /\ b[k + 1 - i] = 1})], 0)

RECURSIVE Repeat(_, _)
Repeat(s, k) == IF k = 0 THEN <<>> ELSE s \o Repeat(s, k - 1)

\* a <= b for two significands without leading zeros
LeqBits(a, b) ==
    \/ Len(a) < Len(b)
    \/ /\ Len(a) = Len(b)
       /\ \A i \in 1 .. Len(a) : (a[i] > b[i]) => \E j \in (i + 1) .. Len(a) : a[j] < b[j]

Float(neg, m, e) == [neg |-> neg, m |-> m, e |-> e]

\* round to nearest, ties to even, to MANT_BITS significant bits
RoundFloat(neg, m, e) ==
    IF Len(m) <= MANT_BITS THEN Float(neg, m, e)
    ELSE LET d == Len(m) - MANT_BITS
             kept == SubSeq(m, d + 1, Len(m))
             above_half == m[d] = 1 /\ \E i \in 1 .. (d - 1) : m[i] = 1
             half_to_odd == m[d] = 1 /\ kept[1] = 1
         IN  Float(neg, IF above_half \/ half_to_odd THEN AddBits(kept, <<1>>, 0) ELSE kept,
                   e + d)

\* float(i) of an int
float_from_int(i) == RoundFloat(i < 0, ToBits(IF i < 0 THEN 0 - i ELSE i), 0)

\* a * b of two floats
float_mul(a, b) == RoundFloat(a.neg # b.neg, MulBits(a.m, b.m), a.e + b.e)

\* int(f): truncation toward zero
int_from_float(f) ==
    LET magnitude == IF f.e >= 0 THEN FromBits(Repeat(<<0>>, f.e) \o f.m)
                     ELSE IF 0 - f.e >= Len(f.m) THEN 0
                     ELSE FromBits(SubSeq(f.m, 1 - f.e, Len(f.m)))
    IN  IF f.neg THEN 0 - magnitude ELSE magnitude

\* the float literals of optimizations.py
FLOAT_0_5 == Float(FALSE, <<1>>, -1)
FLOAT_0_8 == Float(FALSE, <<1, 0, 1, 1>> \o Repeat(<<0, 0, 1, 1>>, 12), -52)
FLOAT_1_0 == Float(FALSE, <<1>>, 0)
FLOAT_1_2 == Float(FALSE, Repeat(<<1, 1, 0, 0>>, 13) \o <<1>>, -52)
FLOAT_1_5 == Float(FALSE, <<1, 1>>, -1)
FLOAT_2_0 == Float(FALSE, <<1>>, 1)
FLOAT_2_5 == Float(FALSE, <<1, 0, 1>>, -1)
FLOAT_5_0 == Float(FALSE, <<1, 0, 1>>, 0)

\* int(i * f) for an int i and a float f
int_times_float(i, f) == int_from_float(float_mul(float_from_int(i), f))


\* the quotient and remainder of a natural number given by its bits, by long
\* division from the top bit down
RECURSIVE DivModBits(_, _)
DivModBits(n, d) ==
    IF n = <<>> THEN [q |-> 0, r |-> 0]
    ELSE LET upper == DivModBits(Tail(n), d)
             rem == 2 * upper.r + Head(n)
         IN  IF rem >= d THEN [q |-> 2 * upper.q + 1, r |-> rem - d]
             ELSE [q |-> 2 * upper.q, r |-> rem]

Abs(i) == IF i < 0 THEN 0 - i ELSE i

\* (a * b) // d on ints, d > 0: the product is exact, the division floors
int_mul_floordiv(a, b, d) ==
    LET qr == DivModBits(MulBits(ToBits(Abs(a)), ToBits(Abs(b))), d)
    IN  IF (a < 0) = (b < 0) \/ a = 0 \/ b = 0 THEN qr.q
        ELSE IF qr.r = 0 THEN 0 - qr.q ELSE 0 - qr.q - 1

max(a, b) == IF a >= b THEN a ELSE b
min(a, b) == IF a <= b THEN a ELSE b

----------------------------------------------------------------------------
(* optimizations.py.  Amounts in wei are scaled: a gwei is ONE_GWEI wei.   *)

ECONOMY == "economy"
STANDARD == "standard"
FAST == "fast"
URGENT == "urgent"
OptimizationProfile == {ECONOMY, STANDARD, FAST, URGENT}

SOLANA_MAX_CU == 1400000
SOLANA_DEFAULT_PRIORITY_FEE == 1000
SOLANA_MIN_PRIORITY_FEE == 100      \* the literal 100 of max(..., 100)
LAMPORT == 1000000                  \* microlamports in a lamport
ONE_GWEI == 1000
EVM_BASE_GAS_PRICE == 30 * ONE_GWEI

SolanaComputeBudget(units, microlamports_per_cu, total_priority_fee_lamports) ==
    [units |-> units, microlamports_per_cu |-> microlamports_per_cu,
     total_priority_fee_lamports |-> total_priority_fee_lamports]

EvmGasConfig(gas_limit, max_fee_per_gas, max_priority_fee_per_gas) ==
    [gas_limit |-> gas_limit, max_fee_per_gas |-> max_fee_per_gas,
     max_priority_fee_per_gas |-> max_priority_fee_per_gas]

\* None where an Optional[int] is expected
NoInt == [some |-> FALSE, v |-> 0]

\* Python's "x or default" for an Optional[int]: None and 0 are both falsy
or_default(optional, default) ==
    IF optional.some /\ optional.v # 0 THEN optional.v ELSE default

solana_multipliers ==
    (ECONOMY :> FLOAT_0_5) @@ (STANDARD :> FLOAT_1_0) @@ (FAST :> FLOAT_2_0)
        @@ (URGENT :> FLOAT_5_0)

\* calculate_solana_budget without the cap at SOLANA_MAX_CU
calculate_solana_budget_uncapped(estimated_cu, profile, current_median_fee) ==
    LET units == int_times_float(estimated_cu, FLOAT_1_2)
        multiplier == solana_multipliers[profile]
        base_fee == or_default(current_median_fee, SOLANA_DEFAULT_PRIORITY_FEE)
        microlamports_per_cu ==
            max(int_times_float(base_fee, multiplier), SOLANA_MIN_PRIORITY_FEE)
        total_priority_fee_lamports == int_mul_floordiv(units, microlamports_per_cu, LAMPORT)
    IN  SolanaComputeBudget(units, microlamports_per_cu, total_priority_fee_lamports)

calculate_solana_budget(estimated_cu, profile, current_median_fee) ==
    LET units == min(int_times_float(estimated_cu, FLOAT_1_2), SOLANA_MAX_CU)
        multiplier == solana_multipliers[profile]
        base_fee == or_default(current_median_fee, SOLANA_DEFAULT_PRIORITY_FEE)
        microlamports_per_cu ==
            max(int_times_float(base_fee, multiplier), SOLANA_MIN_PRIORITY_FEE)
        total_priority_fee_lamports == int_mul_floordiv(units, microlamports_per_cu, LAMPORT)
    IN  SolanaComputeBudget(units, microlamports_per_cu, total_priority_fee_lamports)

evm_multipliers ==
    (ECONOMY :> FLOAT_0_8) @@ (STANDARD :> FLOAT_1_0) @@ (FAST :> FLOAT_1_5)
        @@ (URGENT :> FLOAT_2_5)

\* calculate_evm_gas reading the Solana table of multipliers
calculate_evm_gas_solana_table(estimated_gas, profile, base_fee) ==
    LET base == or_default(base_fee, EVM_BASE_GAS_PRICE)
        multiplier == solana_multipliers[profile]
        base_priority == 2 * ONE_GWEI
        max_priority_fee_per_gas == int_times_float(base_priority, multiplier)
        max_fee_per_gas == base * 2 + max_priority_fee_per_gas
        gas_limit == int_times_float(estimated_gas, FLOAT_1_2)
    IN  EvmGasConfig(gas_limit, max_fee_per_gas, max_priority_fee_per_gas)

calculate_evm_gas(estimated_gas, profile, base_fee) ==
    LET base == or_default(base_fee, EVM_BASE_GAS_PRICE)
        multiplier == evm_multipliers[profile]
        base_priority == 2 * ONE_GWEI
        max_priority_fee_per_gas == int_times_float(base_priority, multiplier)
        max_fee_per_gas == base * 2 + max_priority_fee_per_gas
        gas_limit == int_times_float(estimated_gas, FLOAT_1_2)
    IN  EvmGasConfig(gas_limit, max_fee_per_gas, max_priority_fee_per_gas)


----------------------------------------------------------------------------
(* Scenario "budget": calculate_solana_budget or calculate_evm_gas is      *)
(* called once with any estimate, any profile and any or no base fee.      *)

SmallEstimate == 12
SmallFee == 4

\* the least estimate whose 20% buffer reaches SOLANA_MAX_CU, less one
BelowCap == (SOLANA_MAX_CU * 10) \div 12

Estimates ==
    ((0 - SmallEstimate) .. SmallEstimate)
        \cup ((BelowCap - 2) .. (BelowCap + 2))
        \cup {17800, 17803, 200000, SOLANA_MAX_CU, 2 * SOLANA_MAX_CU}

MedianFees ==
    {NoInt} \cup {Some(f) : f \in 0 .. SmallFee}
        \cup {Some(f) : f \in {19, 20, 21, 49, 50, 51, 99, 100, 101, 199, 200, 201,
                               999, 1000, 1001, 250000}}

BaseFees == {NoInt, Some(0), Some(1), Some(ONE_GWEI), Some(25 * ONE_GWEI)}

BudgetStart ==
    [phase |-> "start", estimate |-> 0, profile |-> STANDARD, fee |-> NoInt,
     solana |-> SolanaComputeBudget(0, 0, 0), evm |-> EvmGasConfig(0, 0, 0)]

InitBudget ==
    /\ ImportModule
    /\ opt = BudgetStart
    /\ cm = Idle /\ st = Idle /\ ma = Idle /\ ae = Idle

CalculateSolanaBudget ==
    /\ opt.phase = "start"
    /\ \E estimated_cu \in Estimates, profile \in OptimizationProfile, fee \in MedianFees :
          opt' = [opt EXCEPT !.phase = "solana", !.estimate = estimated_cu,
                             !.profile = profile, !.fee = fee,
                             !.solana = calculate_solana_budget(estimated_cu, profile, fee)]
    /\ UNCHANGED <<G_BYTES, H_BYTES, sha, cm, st, ma, ae>>

CalculateEvmGas ==
    /\ opt.phase = "start"
    /\ \E estimated_gas \in Estimates, profile \in OptimizationProfile, fee \in BaseFees :
          opt' = [opt EXCEPT !.phase = "evm", !.estimate = estimated_gas,
                             !.profile = profile, !.fee = fee,
                             !.evm = calculate_evm_gas(estimated_gas, profile, fee)]
    /\ UNCHANGED <<G_BYTES, H_BYTES, sha, cm, st, ma, ae>>

NextBudget == CalculateSolanaBudget \/ CalculateEvmGas

SpecBudget == InitBudget /\ [][NextBudget]_vars

\* t = floor(u * m / LAMPORT) for m > 0, by the two products that bracket
\* u * m, each exact
IsFloorOfFee(t, u, m) ==
    LET um == MulBits(ToBits(Abs(u)), ToBits(m))
        times(k) == MulBits(ToBits(k), ToBits(LAMPORT))
    IN  IF u >= 0
        THEN t >= 0 /\ LeqBits(times(t), um) /\ ~LeqBits(times(t + 1), um)
        ELSE t < 0 /\ LeqBits(um, times(0 - t)) /\ ~LeqBits(um, times(0 - t - 1))

SolanaTenths == (ECONOMY :> 5) @@ (STANDARD :> 10) @@ (FAST :> 20) @@ (URGENT :> 50)
EvmTenths == (ECONOMY :> 8) @@ (STANDARD :> 10) @@ (FAST :> 15) @@ (URGENT :> 25)

\* C24 as stated: microlamports_per_cu is the base fee (the supplied
\* current_median_fee, or 1,000 when none is supplied) times 0.5/1.0/2.0/5.0,
\* and max_priority_fee_per_gas is 2 gwei times 0.8/1.0/1.5/2.5.
C24_FeeIsBaseTimesMultiplier ==
    /\ opt.phase = "solana"
          => LET base == IF opt.fee.some THEN opt.fee.v ELSE SOLANA_DEFAULT_PRIORITY_FEE
             IN  10 * opt.solana.microlamports_per_cu = base * SolanaTenths[opt.profile]
    /\ opt.phase = "evm"
          => 10 * opt.evm.max_priority_fee_per_gas = 2 * ONE_GWEI * EvmTenths[opt.profile]

\* C24 amended: the base fee is 1,000 also when the supplied fee is 0, the
\* product is rounded down to an integer, and microlamports_per_cu is never
\* below 100; the EVM priority fee is as stated.
C24_FeeIsFlooredProductAtLeastMinimum ==
    /\ opt.phase = "solana"
          => LET base == IF opt.fee.some /\ opt.fee.v # 0 THEN opt.fee.v
                         ELSE SOLANA_DEFAULT_PRIORITY_FEE
                 product == (base * SolanaTenths[opt.profile]) \div 10
             IN  opt.solana.microlamports_per_cu
                     = IF product < SOLANA_MIN_PRIORITY_FEE THEN SOLANA_MIN_PRIORITY_FEE
                       ELSE product
    /\ opt.phase = "evm"
          => 10 * opt.evm.max_priority_fee_per_gas = 2 * ONE_GWEI * EvmTenths[opt.profile]

C24_Witness ==
    /\ opt.phase = "solana"
    /\ opt.fee.some
    /\ opt.profile = ECONOMY
    /\ opt.fee.v % 2 = 1
    /\ opt.solana.microlamports_per_cu > SOLANA_MIN_PRIORITY_FEE
    /\ 2 * opt.solana.microlamports_per_cu = opt.fee.v - 1


----------------------------------------------------------------------------
(* Scenario "recover": derive_stealth_private_key is called with valid     *)
(* private keys on any announced stealth address, one generated for these  *)
(* keys or not: the function does not call check_stealth_address.          *)

\* the compressed encodings of the points of the curve
ValidPointTexts == MinuendTexts

ValidScalarTexts == {bytes_to_hex(BigEndian(k, SCALAR_LEN)) : k \in 1 .. (CURVE_ORDER - 1)}

RecoverStart ==
    [phase |-> "start", stealth |-> StealthAddress(<<>>, <<>>, 0),
     spending_private_key |-> <<>>, viewing_private_key |-> <<>>,
     recovery |-> Raise("NotCalled")]

InitRecover ==
    /\ ImportModule
    /\ st = RecoverStart
    /\ cm = Idle /\ ma = Idle /\ ae = Idle
    /\ opt = Idle

DeriveAny ==
    /\ st.phase = "start"
    /\ \E address \in ValidPointTexts, ephemeral_public_key \in ValidPointTexts,
          spending_private_key \in ValidScalarTexts,
          viewing_private_key \in ValidScalarTexts :
          LET stealth == StealthAddress(address, ephemeral_public_key, 0)
              msg == recipient_shared_secret(stealth, spending_private_key)
          IN  \E d \in HashOutcomes(msg) :
                  /\ sha' = Hashed(msg, d)
                  /\ st' = [phase |-> "recovered", stealth |-> stealth,
                            spending_private_key |-> spending_private_key,
                            viewing_private_key |-> viewing_private_key,
                            recovery |-> derive_stealth_private_key(
                                             stealth, spending_private_key,
                                             viewing_private_key, d)]
    /\ UNCHANGED <<G_BYTES, H_BYTES, cm, ma, ae, opt>>

NextRecover == DeriveAny

SpecRecover == InitRecover /\ [][NextRecover]_vars

\* C26: the private key derive_stealth_private_key returns is a scalar in
\* [1, n): it is the zero scalar for no stealth address and key pair.
C26_DerivedKeyInRange ==
    (st.phase = "recovered" /\ st.recovery.ok) =>
        int_from_bytes(hex_to_bytes(st.recovery.val.private_key).val)
            \in 1 .. (CURVE_ORDER - 1)

====
